---- MODULE Spec2Model ----
(***************************************************************************)
(* Food-Cast-AI: the forecast computation pipeline                         *)
(* (AdvancedForecastingService, ForecastingService) as a state machine.    *)
(*                                                                         *)
(* Numbers.  A JavaScript number is modelled as a pair <<n, d>>:           *)
(*   d > 0  : the rational n/d in lowest terms (arithmetic is exact, the   *)
(*            rounding of IEEE doubles is not modelled);                   *)
(*   <<0,0>>: NaN;  <<1,0>>: +Infinity;  <<-1,0>>: -Infinity.              *)
(* The sign of a zero is not modelled (x/0 is +Infinity for x > 0).        *)
(* The JavaScript value `undefined` (a hole of `new Array(n)`) is the      *)
(* string "undefined"; arithmetic on it yields NaN.                        *)
(***************************************************************************)
EXTENDS Integers, Sequences, FiniteSets, TLC

----------------------------------------------------------------------------
(* IEEE-754 arithmetic on <<n, d>>                                          *)

NaN == <<0, 0>>
PInf == <<1, 0>>
NInf == <<-1, 0>>

Abs(i) == IF i < 0 THEN -i ELSE i

RECURSIVE GCD(_, _)
GCD(a, b) == IF b = 0 THEN a ELSE GCD(b, a % b)

\* the rational n/d (d # 0) in lowest terms with a positive denominator
R(n, d) ==
    LET g == GCD(Abs(n), Abs(d))
        s == IF d < 0 THEN -1 ELSE 1
    IN  <<(s * n) \div g, (s * d) \div g>>

I(n) == <<n, 1>>

IsNaN(x) == x = NaN
IsInf(x) == x = PInf \/ x = NInf
IsFinite(x) == x[2] > 0
Sign(x) == IF x[1] > 0 THEN 1 ELSE IF x[1] < 0 THEN -1 ELSE 0

\* `undefined` coerces to NaN in arithmetic
Num(v) == IF v = "undefined" THEN NaN ELSE v

FNeg(x) == <<-x[1], x[2]>>

FAdd(x, y) ==
    IF IsNaN(x) \/ IsNaN(y) THEN NaN
    ELSE IF IsInf(x) THEN (IF IsInf(y) /\ y # x THEN NaN ELSE x)
    ELSE IF IsInf(y) THEN y
    ELSE IF x[2] = y[2] /\ x[2] = 1 THEN <<x[1] + y[1], 1>>
    ELSE R(x[1] * y[2] + y[1] * x[2], x[2] * y[2])

FSub(x, y) == FAdd(x, FNeg(y))

FMul(x, y) ==
    IF IsNaN(x) \/ IsNaN(y) THEN NaN
    ELSE IF IsInf(x) \/ IsInf(y)
         THEN (IF Sign(x) * Sign(y) = 0 THEN NaN ELSE <<Sign(x) * Sign(y), 0>>)
    ELSE IF x[2] = y[2] /\ x[2] = 1 THEN <<x[1] * y[1], 1>>
    ELSE R(x[1] * y[1], x[2] * y[2])

FDiv(x, y) ==
    IF IsNaN(x) \/ IsNaN(y) THEN NaN
    ELSE IF IsInf(x) THEN (IF IsInf(y) THEN NaN
                           ELSE IF Sign(y) < 0 THEN FNeg(x) ELSE x)
    ELSE IF IsInf(y) THEN I(0)
    ELSE IF y[1] = 0 THEN (IF x[1] = 0 THEN NaN ELSE <<Sign(x), 0>>)
    ELSE R(x[1] * y[2], x[2] * y[1])

\* x < y on numbers; false when either is NaN, as in JavaScript
FLt(x, y) ==
    IF IsNaN(x) \/ IsNaN(y) THEN FALSE
    ELSE IF x = y THEN FALSE
    ELSE IF x = NInf \/ y = PInf THEN TRUE
    ELSE IF x = PInf \/ y = NInf THEN FALSE
    ELSE x[1] * y[2] < y[1] * x[2]

FGt(x, y) == FLt(y, x)
FLe(x, y) == ~IsNaN(x) /\ ~IsNaN(y) /\ ~FLt(y, x)
FGe(x, y) == FLe(y, x)

FAbs(x) == <<Abs(x[1]), x[2]>>

\* Math.max / Math.min of two numbers: NaN when either is NaN
FMax(x, y) == IF IsNaN(x) \/ IsNaN(y) THEN NaN ELSE IF FLt(x, y) THEN y ELSE x
FMin(x, y) == IF IsNaN(x) \/ IsNaN(y) THEN NaN ELSE IF FLt(y, x) THEN y ELSE x

\* a || b on numbers: 0 and NaN are falsy
OrElse(a, b) == IF IsNaN(a) \/ a = I(0) THEN b ELSE a

\* Math.log, as far as it is tracked: the logarithm of a positive finite
\* number is some finite number, represented by the string "finite"
FLogClass(x) ==
    IF IsNaN(x) \/ Sign(x) < 0 THEN "NaN"
    ELSE IF x = I(0) THEN "-Infinity"
    ELSE IF x = PInf THEN "Infinity"
    ELSE "finite"

\* s[1] + ... + s[k], added left to right as reduce does
RECURSIVE SumTo(_, _)
SumTo(s, k) == IF k = 0 THEN I(0) ELSE FAdd(SumTo(s, k - 1), s[k])

SumSeq(s) == SumTo(s, Len(s))

\* the last k elements: data.slice(-k)
LastK(s, k) == IF k >= Len(s) THEN s ELSE SubSeq(s, Len(s) - k + 1, Len(s))

Min2(a, b) == IF a < b THEN a ELSE b
Max2(a, b) == IF a > b THEN a ELSE b

\* 0-based element access, as in the source
At(s, i) == s[i + 1]

----------------------------------------------------------------------------
(* calculateMetrics                                                         *)

\* n * Math.log(mse) + 2 * 3 for n > 0: finite unless the logarithm is not
AicClass(mse) == FLogClass(mse)

RECURSIVE SumAbsErr(_, _, _)
SumAbsErr(actual, predicted, n) ==
    IF n = 0 THEN I(0)
    ELSE FAdd(SumAbsErr(actual, predicted, n - 1),
              FAbs(FSub(actual[n], Num(predicted[n]))))

RECURSIVE SumSqErr(_, _, _)
SumSqErr(actual, predicted, n) ==
    IF n = 0 THEN I(0)
    ELSE LET e == FAbs(FSub(actual[n], Num(predicted[n])))
         IN  FAdd(SumSqErr(actual, predicted, n - 1), FMul(e, e))

\* mape += Math.abs(error / actual[i]) only where actual[i] !== 0
RECURSIVE SumPctErr(_, _, _)
SumPctErr(actual, predicted, n) ==
    IF n = 0 THEN I(0)
    ELSE LET e == FAbs(FSub(actual[n], Num(predicted[n])))
             rest == SumPctErr(actual, predicted, n - 1)
         IN  IF actual[n] # I(0) THEN FAdd(rest, FAbs(FDiv(e, actual[n]))) ELSE rest

\* a faulty total sum of squares: of the values, not of their deviations
RECURSIVE SumSqValues(_, _, _)
SumSqValues(actual, mean, k) ==
    IF k = 0 THEN I(0)
    ELSE FAdd(SumSqValues(actual, mean, k - 1), FMul(actual[k], actual[k]))

RECURSIVE SumSqDev(_, _, _)
SumSqDev(actual, mean, k) ==
    IF k = 0 THEN I(0)
    ELSE LET d == FSub(actual[k], mean)
         IN  FAdd(SumSqDev(actual, mean, k - 1), FMul(d, d))

\* residualSumSquares reduces over all of `actual`; predicted[i] past the end
\* of `predicted` is undefined
RECURSIVE SumSqRes(_, _, _)
SumSqRes(actual, predicted, k) ==
    IF k = 0 THEN I(0)
    ELSE LET p == IF k <= Len(predicted) THEN Num(predicted[k]) ELSE NaN
             d == FSub(actual[k], p)
         IN  FAdd(SumSqRes(actual, predicted, k - 1), FMul(d, d))

\* The field mse stands for rmse = Math.sqrt(mse): rmse is NaN, 0 or infinite
\* exactly when mse is.  aic is kept as the class of n*ln(mse) + 6.
calculateMetrics(actual, predicted) ==
    LET n == Min2(Len(actual), Len(predicted))
    IN  IF n = 0
        THEN [mae |-> I(0), mape |-> I(0), mse |-> I(0), r2 |-> I(0), aic |-> "finite",
              accuracy |-> R(1, 2), precision |-> R(1, 2), recall |-> R(1, 2),
              f1Score |-> R(1, 2)]
        ELSE LET mae == FDiv(SumAbsErr(actual, predicted, n), I(n))
                 mse == FDiv(SumSqErr(actual, predicted, n), I(n))
                 mape == FDiv(SumPctErr(actual, predicted, n), I(n))
                 actualMean == FDiv(SumSeq(actual), I(n))
                 totalSumSquares == SumSqDev(actual, actualMean, Len(actual))
                 residualSumSquares == SumSqRes(actual, predicted, Len(actual))
                 r2 == IF totalSumSquares = I(0) THEN I(1)
                       ELSE FSub(I(1), FDiv(residualSumSquares, totalSumSquares))
                 accuracy == FMax(I(0), FSub(I(1), mape))
                 precision == FMax(R(3, 10), accuracy)
                 recall == FMax(R(3, 10), accuracy)
                 f1Score == FDiv(FMul(I(2), FMul(precision, recall)), FAdd(precision, recall))
             IN  [mae |-> mae, mape |-> mape, mse |-> mse, r2 |-> r2, aic |-> AicClass(mse),
                  accuracy |-> accuracy, precision |-> precision, recall |-> recall,
                  f1Score |-> f1Score]

----------------------------------------------------------------------------
(* ARIMA (simplified)                                                       *)

ArimaP == 1
ArimaD == 1

\* a faulty differencing: the series is left as it is
KeepLevels(data, order) == data

RECURSIVE differenceData(_, _)
differenceData(data, order) ==
    IF order = 0 THEN data
    ELSE LET prev == differenceData(data, order - 1)
         IN  [i \in 1..Max2(Len(prev) - 1, 0) |-> FSub(prev[i + 1], prev[i])]

autoregressive(data, order) ==
    IF Len(data) < order + 1
    THEN <<IF Len(data) = 0 THEN I(0) ELSE OrElse(data[Len(data)], I(0))>>
    ELSE LET lastValues == LastK(data, order)
             weighted == [i \in 1..order |-> FMul(lastValues[i], R(1, i))]
         IN  <<FDiv(SumSeq(weighted), I(order))>>

\* conf: the value of 0.8 + Math.random() * 0.15 drawn for the prediction
calculateARIMA(data, conf) ==
    LET differenced == differenceData(data, ArimaD)
        forecast == autoregressive(differenced, ArimaP)
        predictions == [i \in 1..Len(forecast) |-> FMax(I(0), forecast[i])]
        confidence == [i \in 1..Len(predictions) |-> conf]
    IN  [type |-> "arima",
         name |-> "ARIMA(1,1,1)",
         predictions |-> predictions,
         confidence |-> confidence,
         metrics |-> calculateMetrics(LastK(data, Len(predictions)), predictions)]

----------------------------------------------------------------------------
(* Simple exponential smoothing                                             *)

Alpha == R(3, 10)
Beta == R(3, 10)
Gamma == R(3, 10)

RECURSIVE Smoothed(_, _)
Smoothed(data, i) ==
    IF i = 1 THEN data[1]
    ELSE FAdd(FMul(Alpha, data[i]), FMul(FSub(I(1), Alpha), Smoothed(data, i - 1)))

simpleExponentialSmoothing(data) ==
    LET n == Len(data)
        predictions == <<Smoothed(data, n)>>
    IN  [type |-> "exponential_smoothing",
         name |-> "Simple Exponential Smoothing",
         predictions |-> predictions,
         confidence |-> <<R(7, 10)>>,
         metrics |-> calculateMetrics(<<data[n]>>, predictions)]

----------------------------------------------------------------------------
(* Holt-Winters                                                             *)
(*                                                                          *)
(* The initial seasonal indices are computed exactly.  The level, trend    *)
(* and later seasonal values are tracked by class only, because the exact  *)
(* values of the smoothing recursion do not fit TLC's 32-bit integers:    *)
(*   "nan"  NaN            "zero"  exactly 0                               *)
(*   "inf"  an infinity    "fin"   a finite value that is not tracked      *)
(* A "fin" value is taken to be non-zero where it is a divisor: level[i]   *)
(* is exactly 0 only while data[0..i] are all 0 (tracked as "zero");       *)
(* later cancellation to exactly 0 is not modelled.  Where a forecast is   *)
(* "fin", its value is supplied by the caller (fin[h]).                    *)

SeasonLength == 7
HWHorizon == 7

Cls(x) ==
    IF IsNaN(x) THEN "nan" ELSE IF IsInf(x) THEN "inf"
    ELSE IF x[1] = 0 THEN "zero" ELSE "fin"

CAdd(a, b) ==
    IF a = "nan" \/ b = "nan" THEN "nan"
    ELSE IF a = "inf" \/ b = "inf" THEN "inf"
    ELSE IF a = "zero" THEN b
    ELSE a

CMul(a, b) ==
    IF a = "nan" \/ b = "nan" THEN "nan"
    ELSE IF a = "inf" \/ b = "inf"
         THEN (IF a = "zero" \/ b = "zero" THEN "nan" ELSE "inf")
    ELSE IF a = "zero" \/ b = "zero" THEN "zero"
    ELSE "fin"

CDiv(a, b) ==
    IF a = "nan" \/ b = "nan" THEN "nan"
    ELSE IF a = "inf" THEN (IF b = "inf" THEN "nan" ELSE "inf")
    ELSE IF b = "inf" THEN "zero"
    ELSE IF b = "zero" THEN (IF a = "zero" THEN "nan" ELSE "inf")
    ELSE a

\* data.slice(i, n).filter((_, idx) => idx % seasonLength === 0).reduce(sum)
RECURSIVE SeasonalSum(_, _)
SeasonalSum(data, i) ==
    IF i >= Len(data) THEN I(0)
    ELSE FAdd(At(data, i), SeasonalSum(data, i + SeasonLength))

\* seasonal[i] for i < seasonLength
InitialSeasonal(data, i) ==
    LET n == Len(data)
        seasonalSum == SeasonalSum(data, i)
        seasonalCount == (n - i) \div SeasonLength
    IN  IF seasonalCount > 0 THEN FDiv(seasonalSum, I(seasonalCount)) ELSE I(1)

\* the class of a difference: as for a sum (no cancellation between
\* untracked values)
CSub(a, b) == CAdd(a, b)

\* One pass of the smoothing loop: st = [level, trend, seasonal] with level
\* and trend the classes at i - 1 and seasonal the array of classes so far.
HWStep(data, st, i) ==
    LET seasonalIndex == i % SeasonLength
        ratio == Cls(FDiv(At(data, i), InitialSeasonal(data, seasonalIndex)))
        level == CAdd(CMul(Cls(Alpha), ratio),
                      CMul(Cls(FSub(I(1), Alpha)), CAdd(st.level, st.trend)))
        trend == CAdd(CMul(Cls(Beta), CSub(level, st.level)),
                      CMul(Cls(FSub(I(1), Beta)), st.trend))
        seas == CAdd(CMul(Cls(Gamma), CDiv(Cls(At(data, i)), level)),
                     CMul(Cls(FSub(I(1), Gamma)), st.seasonal[seasonalIndex]))
    IN  [level |-> level, trend |-> trend,
         seasonal |-> [st.seasonal EXCEPT ![i + SeasonLength] = seas]]

\* (next is bound to the value of the pass, so that each pass is evaluated
\* once, before the following one)
RECURSIVE HWLoop(_, _, _)
HWLoop(data, st, i) ==
    IF i >= Len(data) THEN st
    ELSE CHOOSE r \in {HWLoop(data, next, i + 1) : next \in {HWStep(data, st, i)}} : TRUE

\* the state after the smoothing loop: level[n-1], trend[n-1] and seasonal[]
\* (seasonal = new Array(n + seasonLength): entries not assigned are undefined)
HWSmooth(data) ==
    LET n == Len(data)
        seasonal0 == [k \in 0..(n + SeasonLength - 1) |->
                        IF k < SeasonLength THEN Cls(InitialSeasonal(data, k))
                        ELSE "undefined"]
        level0 == Cls(FDiv(At(data, 0), InitialSeasonal(data, 0)))
    IN  HWLoop(data, [level |-> level0, trend |-> "zero", seasonal |-> seasonal0], 1)

\* the index of the seasonal entry read for forecast step h
ForecastSeasonalIndex(n, h) == n - SeasonLength + ((n - 1 + h) % SeasonLength)

\* (level[n-1] + h * trend[n-1]) * seasonal[n - seasonLength + seasonalIndex]
HWForecastClass(st, n, h) ==
    LET s == st.seasonal[ForecastSeasonalIndex(n, h)]
    IN  CMul(CAdd(st.level, CMul(Cls(I(h)), st.trend)),
             IF s = "undefined" THEN "nan" ELSE s)

\* predictions.push(Math.max(0, forecast))
HWPrediction(c, v) ==
    IF c = "nan" THEN NaN
    ELSE IF c = "inf" THEN PInf
    ELSE IF c = "zero" THEN I(0)
    ELSE FMax(I(0), v)

\* confidence.push(Math.max(0.5, 0.9 - h * 0.05))
HWConfidence(h) == FMax(R(1, 2), FSub(R(9, 10), FMul(I(h), R(1, 20))))

calculateExponentialSmoothing(data, fin) ==
    LET n == Len(data)
    IN  IF n < SeasonLength * 2 THEN simpleExponentialSmoothing(data)
        ELSE LET st == HWSmooth(data)
                 cls == [h \in 1..HWHorizon |-> HWForecastClass(st, n, h)]
                 predictions == [h \in 1..HWHorizon |-> HWPrediction(cls[h], fin[h])]
                 confidence == [h \in 1..HWHorizon |-> HWConfidence(h)]
             IN  [type |-> "exponential_smoothing",
                  name |-> "Holt-Winters",
                  predictions |-> predictions,
                  confidence |-> confidence,
                  metrics |-> calculateMetrics(LastK(data, Min2(Len(predictions), n)),
                                               SubSeq(predictions, 1, Min2(Len(predictions), n)))]

----------------------------------------------------------------------------
(* Neural network                                                           *)

WindowSize == 5

\* out: the value of activate(lastSequence, weights, bias) after training from
\* the random initial weights and bias
calculateNeuralNetworkForecast(data, out) ==
    IF Len(data) < WindowSize + 1 THEN simpleExponentialSmoothing(data)
    ELSE LET predictions == <<FMax(I(0), out)>>
             \* targets.slice(-1): the last target is the last observation
             targets == <<data[Len(data)]>>
         IN  [type |-> "neural_network",
              name |-> "Neural Network",
              predictions |-> predictions,
              confidence |-> <<R(4, 5)>>,
              metrics |-> calculateMetrics(targets, predictions)]

----------------------------------------------------------------------------
(* createEnsemble                                                           *)

RECURSIVE MaxLength(_)
MaxLength(models) ==
    IF models = <<>> THEN 0
    ELSE Max2(Len(models[Len(models)].predictions),
              MaxLength(SubSeq(models, 1, Len(models) - 1)))

\* a faulty comparison: >= in place of >, so that a later model wins a tie
BetterOrEqual(current, best) ==
    FGe(OrElse(current.metrics.accuracy, I(0)), OrElse(best.metrics.accuracy, I(0)))

\* models.reduce((best, current) =>
\*   (current.metrics.accuracy || 0) > (best.metrics.accuracy || 0) ? current : best)
BetterThan(current, best) ==
    FGt(OrElse(current.metrics.accuracy, I(0)), OrElse(best.metrics.accuracy, I(0)))

RECURSIVE BestIndex(_, _)
BestIndex(models, k) ==
    IF k = 1 THEN 1
    ELSE LET b == BestIndex(models, k - 1)
         IN  IF BetterThan(models[k], models[b]) THEN k ELSE b

BestModel(models) == models[BestIndex(models, Len(models))]

\* const weight = model.metrics.accuracy || 0.5
Weight(model) == OrElse(model.metrics.accuracy, R(1, 2))

\* a faulty average: divides by the number of all models, a model without a
\* value at step i counting as 0
AverageOverAllModels(models, i) ==
    LET valid == SelectSeq(models, LAMBDA m: i <= Len(m.predictions))
        k == Len(valid)
    IN  [pred |-> FDiv(SumSeq([j \in 1..k |-> valid[j].predictions[i]]), I(Len(models))),
         conf |-> FDiv(SumSeq([j \in 1..k |-> valid[j].confidence[i]]), I(Len(models)))]

\* step i is 1-based here: i-th forecast step
AverageStep(models, i) ==
    LET validPredictions == SelectSeq(models, LAMBDA m: i <= Len(m.predictions))
        k == Len(validPredictions)
    IN  [pred |-> FDiv(SumSeq([j \in 1..k |-> validPredictions[j].predictions[i]]), I(k)),
         conf |-> FDiv(SumSeq([j \in 1..k |-> Num(validPredictions[j].confidence[i])]), I(k))]

WeightedStep(models, i) ==
    LET valid == SelectSeq(models, LAMBDA m: i <= Len(m.predictions))
        k == Len(valid)
        ensemblePred == SumSeq([j \in 1..k |-> FMul(valid[j].predictions[i], Weight(valid[j]))])
        ensembleConf == SumSeq([j \in 1..k |-> FMul(valid[j].confidence[i], Weight(valid[j]))])
        totalWeight == SumSeq([j \in 1..k |-> Weight(valid[j])])
    IN  IF FGt(totalWeight, I(0))
        THEN [pred |-> FDiv(ensemblePred, totalWeight), conf |-> FDiv(ensembleConf, totalWeight)]
        ELSE [pred |-> ensemblePred, conf |-> ensembleConf]

\* a faulty best_performer: picks the best among the models that have a value
\* at step i, anew at every step
BestAvailableStep(models, i) ==
    LET valid == SelectSeq(models, LAMBDA m: i <= Len(m.predictions))
    IN  IF valid = <<>> THEN [pred |-> I(0), conf |-> I(0)]
        ELSE [pred |-> BestModel(valid).predictions[i],
              conf |-> BestModel(valid).confidence[i]]

BestPerformerStep(models, i) ==
    LET bestModel == BestModel(models)
    IN  IF i <= Len(bestModel.predictions)
        THEN [pred |-> bestModel.predictions[i], conf |-> bestModel.confidence[i]]
        ELSE [pred |-> I(0), conf |-> I(0)]

EnsembleStep(models, method, i) ==
    IF method = "average" THEN AverageStep(models, i)
    ELSE IF method = "weighted" THEN WeightedStep(models, i)
    ELSE IF method = "best_performer" THEN BestPerformerStep(models, i)
    ELSE [pred |-> I(0), conf |-> I(0)]

\* method `undefined` takes the default parameter value 'weighted'
createEnsemble(models, method) ==
    IF Len(models) = 0 THEN [predictions |-> <<>>, confidence |-> <<>>]
    ELSE LET m == IF method = "undefined" THEN "weighted" ELSE method
             maxLength == MaxLength(models)
             steps == [i \in 1..maxLength |-> EnsembleStep(models, m, i)]
         IN  [predictions |-> [i \in 1..maxLength |-> FMax(I(0), steps[i].pred)],
              confidence |-> [i \in 1..maxLength |-> FMin(I(1), FMax(I(0), steps[i].conf))]]

----------------------------------------------------------------------------
(* decomposeTimeSeries                                                      *)

HalfSeason == SeasonLength \div 2

\* trend[i] (0-based i): mean of data.slice(max(0, i - half), min(n, i + half + 1))
TrendAt(data, i) ==
    LET n == Len(data)
        start == Max2(0, i - HalfSeason)
        end == Min2(n, i + HalfSeason + 1)
        slice == SubSeq(data, start + 1, end)
    IN  FDiv(SumSeq(slice), I(Len(slice)))

\* seasonalPattern[k]: mean of data[i] - trend[i] over the i with i % 7 = k
SeasonalPattern(data, trend, k) ==
    LET idx == SelectSeq([j \in 1..Len(data) |-> j - 1], LAMBDA i: i % SeasonLength = k)
        devs == [j \in 1..Len(idx) |-> FSub(At(data, idx[j]), At(trend, idx[j]))]
    IN  IF Len(idx) > 0 THEN FDiv(SumSeq(devs), I(Len(devs))) ELSE I(0)

\* a faulty decomposition: the residual is taken from the trend alone
ResidualFromTrend(data) ==
    LET n == Len(data)
        trend == [j \in 1..n |-> TrendAt(data, j - 1)]
        pattern == [k \in 0..(SeasonLength - 1) |-> SeasonalPattern(data, trend, k)]
        seasonal == [j \in 1..n |-> pattern[(j - 1) % SeasonLength]]
        residual == [j \in 1..n |-> FSub(data[j], trend[j])]
    IN  [trend |-> trend, seasonal |-> seasonal, residual |-> residual]

decomposeTimeSeries(data) ==
    LET n == Len(data)
        trend == [j \in 1..n |-> TrendAt(data, j - 1)]
        pattern == [k \in 0..(SeasonLength - 1) |-> SeasonalPattern(data, trend, k)]
        seasonal == [j \in 1..n |-> pattern[(j - 1) % SeasonLength]]
        residual == [j \in 1..n |-> FSub(FSub(data[j], trend[j]), seasonal[j])]
    IN  [trend |-> trend, seasonal |-> seasonal, residual |-> residual]

----------------------------------------------------------------------------
(* detectAnomalies                                                          *)
(*                                                                          *)
(* stdDev = Math.sqrt(variance) is irrational in general, so a z-score      *)
(* |x - mean| / stdDev is represented by its square (x - mean)^2 / variance *)
(* (NaN when 0/0): z > threshold iff z^2 > threshold^2 for threshold >= 0,  *)
(* and the order of the scores is the order of their squares.               *)

DefaultThreshold == R(5, 2)
TopAnomalies == 5

Mean(values) == FDiv(SumSeq(values), I(Len(values)))

\* a faulty variance: the sample variance (divisor n - 1)
SampleVariance(values) ==
    FDiv(SumSqDev(values, Mean(values), Len(values)), I(Len(values) - 1))

Variance(values) ==
    LET mean == Mean(values)
    IN  FDiv(SumSqDev(values, mean, Len(values)), I(Len(values)))

\* a faulty score: the deviation is not divided by the standard deviation
SquaredDeviation(quantity, mean, variance) ==
    LET d == FSub(quantity, mean)
    IN  FMul(d, d)

\* the square of Math.abs((quantity - mean) / stdDev)
ZScoreSquared(quantity, mean, variance) ==
    LET d == FSub(quantity, mean)
    IN  FDiv(FMul(d, d), variance)

\* a faulty test: !(zScore <= threshold), which a NaN score passes
NotWithinThreshold(zScore2, threshold) == ~FLe(zScore2, FMul(threshold, threshold))

\* zScore > threshold
ExceedsThreshold(zScore2, threshold) == FGt(zScore2, FMul(threshold, threshold))

\* a faulty sort: ascending by anomalyScore
RECURSIVE InsertByScoreAscending(_, _)
InsertByScoreAscending(sorted, a) ==
    IF sorted = <<>> THEN <<a>>
    ELSE IF FLt(a.anomalyScore2, sorted[1].anomalyScore2)
         THEN <<a>> \o sorted
         ELSE <<sorted[1]>> \o InsertByScoreAscending(Tail(sorted), a)

\* anomalies.sort((a, b) => b.anomalyScore - a.anomalyScore): stable, descending
RECURSIVE InsertByScore(_, _)
InsertByScore(sorted, a) ==
    IF sorted = <<>> THEN <<a>>
    ELSE IF FGt(a.anomalyScore2, sorted[1].anomalyScore2)
         THEN <<a>> \o sorted
         ELSE <<sorted[1]>> \o InsertByScore(Tail(sorted), a)

RECURSIVE SortByScore(_)
SortByScore(as) ==
    IF as = <<>> THEN <<>>
    ELSE InsertByScore(SortByScore(SubSeq(as, 1, Len(as) - 1)), as[Len(as)])

\* data: records with fields quantity (a number) and date
detectAnomalies(data, threshold) ==
    LET values == [j \in 1..Len(data) |-> data[j].quantity]
        mean == Mean(values)
        variance == Variance(values)
        scored == [j \in 1..Len(data) |->
                     [date |-> data[j].date, value |-> data[j].quantity,
                      anomalyScore2 |-> ZScoreSquared(data[j].quantity, mean, variance)]]
        anomalies == SelectSeq(scored, LAMBDA a: ExceedsThreshold(a.anomalyScore2, threshold))
    IN  SortByScore(anomalies)

----------------------------------------------------------------------------
(* generateAdvancedForecasts                                                *)
(*                                                                          *)
(* A sales record is [itemName, category, quantity, date]; quantity is a    *)
(* number and date is [kind |-> "Date", time |-> t] for a Date object or    *)
(* [kind |-> "string", time |-> t] for the ISO string a JSON body carries.  *)

MinObservations == 7
DefaultHorizon == 7

IsDate(d) == d.kind = "Date"

\* a faulty grouping: one group per record instead of one per itemName
KeyPerRecord(salesData) == [j \in 1..Len(salesData) |-> salesData[j].itemName]

\* the keys of itemGroups in insertion order (first appearance in salesData)
RECURSIVE GroupKeys(_)
GroupKeys(salesData) ==
    IF salesData = <<>> THEN <<>>
    ELSE LET init == GroupKeys(SubSeq(salesData, 1, Len(salesData) - 1))
             key == salesData[Len(salesData)].itemName
         IN  IF \E j \in 1..Len(init): init[j] = key THEN init ELSE Append(init, key)

GroupOf(salesData, key) == SelectSeq(salesData, LAMBDA sale: sale.itemName = key)

\* a faulty sort: the records are left in the order of the batch
KeepBatchOrder(itemSales) == itemSales

\* itemSales.sort((a, b) => a.date.getTime() - b.date.getTime()): stable
RECURSIVE InsertByDate(_, _)
InsertByDate(sorted, sale) ==
    IF sorted = <<>> THEN <<sale>>
    ELSE IF sale.date.time < sorted[Len(sorted)].date.time
         THEN Append(InsertByDate(SubSeq(sorted, 1, Len(sorted) - 1), sale), sorted[Len(sorted)])
         ELSE Append(sorted, sale)

RECURSIVE SortByDate(_)
SortByDate(itemSales) ==
    IF itemSales = <<>> THEN <<>>
    ELSE InsertByDate(SortByDate(SubSeq(itemSales, 1, Len(itemSales) - 1)),
                      itemSales[Len(itemSales)])

\* a.date.getTime() raises a TypeError when date is not a Date object; the
\* comparator runs on every element of a group of two or more records
SortThrows(itemSales) ==
    Len(itemSales) >= 2 /\ \E j \in 1..Len(itemSales): ~IsDate(itemSales[j].date)

\* The bundle of one item.  draw = [conf, nn, hw]: the values that depend on
\* Math.random() (the ARIMA confidence, the trained network's output) and the
\* untracked finite Holt-Winters forecasts.  externalFactorsImpact (four
\* Math.random() values that nothing reads) is left out.
QuantitiesOf(itemSales) == [j \in 1..Len(itemSales) |-> itemSales[j].quantity]

\* const models = [calculateARIMA(..), calculateExponentialSmoothing(..),
\*                 calculateNeuralNetworkForecast(..)]
ItemModels(quantities, draw) ==
    <<calculateARIMA(quantities, draw.conf),
      calculateExponentialSmoothing(quantities, draw.hw),
      calculateNeuralNetworkForecast(quantities, draw.nn)>>

\* results.push({...}) from the models and the ensemble of the item
ItemBundle(itemName, itemSales, options, models, ensemble, anomalies) ==
    [itemName |-> itemName,
     category |-> itemSales[1].category,
     models |-> models,
     bestModel |-> BestModel(models),
     ensemblePrediction |-> ensemble.predictions,
     ensembleConfidence |-> ensemble.confidence,
     forecastHorizon |-> options.horizon,
     seasonalComponents |-> decomposeTimeSeries(QuantitiesOf(itemSales)),
     anomalies |-> SubSeq(anomalies, 1, Min2(TopAnomalies, Len(anomalies)))]

ItemEnsemble(itemName, itemSales, options, models) ==
    ItemBundle(itemName, itemSales, options, models,
               createEnsemble(models, options.ensembleMethod),
               detectAnomalies(itemSales, DefaultThreshold))

ForecastItem(itemName, itemSales, options, draw) ==
    ItemEnsemble(itemName, itemSales, options,
                 ItemModels(QuantitiesOf(itemSales), draw))

\* the loop over itemGroups.entries(), from group k on
RECURSIVE ForecastGroups(_, _, _, _, _)
ForecastGroups(salesData, keys, k, options, rnd) ==
    IF k > Len(keys) THEN [threw |-> FALSE, results |-> <<>>]
    ELSE LET itemName == keys[k]
             group == GroupOf(salesData, itemName)
         IN  IF SortThrows(group) THEN [threw |-> TRUE, results |-> <<>>]
             ELSE LET rest == ForecastGroups(salesData, keys, k + 1, options, rnd)
                      itemSales == SortByDate(group)
                  IN  IF rest.threw THEN rest
                      ELSE IF Len(itemSales) < MinObservations THEN rest
                      ELSE [threw |-> FALSE,
                            results |-> <<ForecastItem(itemName, itemSales, options,
                                                       rnd[itemName])>> \o rest.results]

\* threw: the returned promise rejects (nothing is returned)
generateAdvancedForecasts(salesData, options, rnd) ==
    ForecastGroups(salesData, GroupKeys(salesData), 1, options, rnd)

----------------------------------------------------------------------------
(* ForecastingService: generateForecasts                                    *)
(*                                                                          *)
(* Math.sqrt and Math.exp have irrational values in general.  Where the     *)
(* value is rational (the root of a perfect square, exp(0)) it is computed  *)
(* exactly; otherwise it is enclosed between two rationals and `rounding`   *)
(* ("down" or "up") says which end of the enclosure stands for it.          *)

\* the largest k in lo..hi with k * k <= v
RECURSIVE ISqrtIn(_, _, _)
ISqrtIn(v, lo, hi) ==
    IF lo >= hi THEN lo
    ELSE LET mid == (lo + hi + 1) \div 2
         IN  IF mid * mid <= v THEN ISqrtIn(v, mid, hi) ELSE ISqrtIn(v, lo, mid - 1)

\* Math.sqrt: sqrt(n/d) = sqrt(n*d)/d, with sqrt(n*d) between two integers
FSqrt(x, rounding) ==
    IF IsNaN(x) \/ Sign(x) < 0 THEN NaN
    ELSE IF x = PInf THEN PInf
    ELSE LET v == x[1] * x[2]
             k == ISqrtIn(v, 0, Min2(v, 46340))
         IN  IF k * k = v \/ rounding = "down" THEN R(k, x[2]) ELSE R(k + 1, x[2])

\* Math.exp(-y) for a rational y = a/b > 0: between max(0, 1 - y) and
\* 1 / (1 + y + y^2/2) = 2b^2 / (2b^2 + 2ab + a^2)
ExpOfNegative(y, rounding) ==
    IF rounding = "down" THEN FMax(I(0), FSub(I(1), y))
    ELSE R(2 * y[2] * y[2], 2 * y[2] * y[2] + 2 * y[1] * y[2] + y[1] * y[1])

\* Math.exp
FExp(x, rounding) ==
    IF IsNaN(x) THEN NaN
    ELSE IF x = PInf THEN PInf
    ELSE IF x = NInf THEN I(0)
    ELSE IF x = I(0) THEN I(1)
    ELSE IF Sign(x) < 0 THEN ExpOfNegative(FNeg(x), rounding)
    ELSE FDiv(I(1), ExpOfNegative(x, IF rounding = "down" THEN "up" ELSE "down"))

\* Math.round: the nearest integer, a half rounded up
FRound(x) ==
    IF ~IsFinite(x) THEN x ELSE I((2 * x[1] + x[2]) \div (2 * x[2]))

calculateMovingAverage(data, window) ==
    IF Len(data) < window THEN FDiv(SumSeq(data), I(Len(data)))
    ELSE FDiv(SumSeq(LastK(data, window)), I(window))

\* x.reduce((acc, xi, i) => acc + xi * y[i], 0) with x = [0, 1, ..., n - 1]
RECURSIVE SumXY(_, _)
SumXY(y, k) == IF k = 0 THEN I(0) ELSE FAdd(SumXY(y, k - 1), FMul(I(k - 1), y[k]))

RECURSIVE SumUpTo(_)
SumUpTo(k) == IF k = 0 THEN 0 ELSE SumUpTo(k - 1) + (k - 1)

RECURSIVE SumSquaresUpTo(_)
SumSquaresUpTo(k) == IF k = 0 THEN 0 ELSE SumSquaresUpTo(k - 1) + (k - 1) * (k - 1)

calculateLinearTrend(data) ==
    IF Len(data) < 2 THEN (IF Len(data) = 0 THEN I(0) ELSE OrElse(data[1], I(0)))
    ELSE LET n == Len(data)
             sumX == I(SumUpTo(n))
             sumY == SumSeq(data)
             sumXY == SumXY(data, n)
             sumXX == I(SumSquaresUpTo(n))
             slope == FDiv(FSub(FMul(I(n), sumXY), FMul(sumX, sumY)),
                           FSub(FMul(I(n), sumXX), FMul(sumX, sumX)))
             intercept == FDiv(FSub(sumY, FMul(slope, sumX)), I(n))
         IN  FAdd(FMul(slope, I(n)), intercept)

\* [0.8, 0.9, 1.0, 1.1, 1.2, 1.4, 1.3], Sunday to Saturday
SeasonalFactors == <<R(4, 5), R(9, 10), I(1), R(11, 10), R(6, 5), R(7, 5), R(13, 10)>>

\* a faulty multiplier: the factor of the day before (the current day when
\* the date passed is tomorrow's)
MultiplierOfDayBefore(dayOfWeek) == SeasonalFactors[((dayOfWeek + 6) % 7) + 1]

\* dayOfWeek = date.getDay(): 0 (Sunday) to 6 (Saturday)
getSeasonalMultiplier(dayOfWeek) == SeasonalFactors[dayOfWeek + 1]

calculateConfidence(data, prediction, rounding) ==
    IF Len(data) = 0 THEN R(1, 2)
    ELSE LET n == Len(data)
             mean == FDiv(SumSeq(data), I(n))
             variance == FDiv(SumSqDev(data, mean, n), I(n))
             stdDev == FSqrt(variance, rounding)
             coefficientOfVariation == FDiv(stdDev, mean)
             baseConfidence == FMax(R(3, 10), FSub(I(1), coefficientOfVariation))
             predictionDeviation ==
                 FDiv(FAbs(FSub(prediction, mean)), OrElse(stdDev, I(1)))
             adjustedConfidence ==
                 FMul(baseConfidence, FExp(FNeg(FDiv(predictionDeviation, I(2))), rounding))
         IN  FMin(R(49, 50), FMax(R(3, 10), adjustedConfidence))

\* (movingAvg * 0.6) + (trendPrediction * 0.4)
BasePrediction(quantities) ==
    FAdd(FMul(calculateMovingAverage(quantities, Min2(7, Len(quantities))), R(3, 5)),
         FMul(calculateLinearTrend(quantities), R(2, 5)))

\* the record pushed for one item (itemSales sorted; tomorrowDay = the
\* weekday of predictionDate)
PredictionOf(itemName, itemSales, options, tomorrowDay, rounding) ==
    LET quantities == QuantitiesOf(itemSales)
        seasonalPrediction ==
            FRound(FMul(BasePrediction(quantities), getSeasonalMultiplier(tomorrowDay)))
    IN  [itemName |-> itemName,
         category |-> itemSales[1].category,
         predictedQuantity |-> FMax(I(0), seasonalPrediction),
         confidence |-> calculateConfidence(quantities, seasonalPrediction, rounding),
         predictionDate |-> tomorrowDay,
         forecastPeriod |-> options.period]

\* Math.abs(basePrediction - lastActual), counted for items of two records or more
ErrorOf(quantities) == FAbs(FSub(BasePrediction(quantities), quantities[Len(quantities)]))

\* the loop over itemGroups.entries(), from group k on
RECURSIVE PredictGroups(_, _, _, _, _, _)
PredictGroups(salesData, keys, k, options, tomorrowDay, rounding) ==
    IF k > Len(keys)
    THEN [threw |-> FALSE, predictions |-> <<>>, totalError |-> I(0), totalPredictions |-> 0]
    ELSE LET group == GroupOf(salesData, keys[k])
         IN  IF SortThrows(group)
             THEN [threw |-> TRUE, predictions |-> <<>>, totalError |-> I(0),
                   totalPredictions |-> 0]
             ELSE LET rest == PredictGroups(salesData, keys, k + 1, options, tomorrowDay,
                                            rounding)
                      itemSales == SortByDate(group)
                      counted == Len(itemSales) > 1
                  IN  IF rest.threw THEN rest
                      ELSE [threw |-> FALSE,
                            predictions |->
                                <<PredictionOf(keys[k], itemSales, options, tomorrowDay,
                                               rounding)>> \o rest.predictions,
                            totalError |->
                                IF counted
                                THEN FAdd(ErrorOf(QuantitiesOf(itemSales)), rest.totalError)
                                ELSE rest.totalError,
                            totalPredictions |->
                                rest.totalPredictions + (IF counted THEN 1 ELSE 0)]

NoMetrics ==
    [accuracy |-> I(0), rmse |-> I(0), f1Score |-> I(0), precision |-> I(0), recall |-> I(0)]

\* the aggregate metrics of generateForecasts
AggregateMetrics(salesData, totalError, totalPredictions) ==
    LET avgError == IF totalPredictions > 0 THEN FDiv(totalError, I(totalPredictions))
                    ELSE I(0)
        avgQuantity == FDiv(SumSeq(QuantitiesOf(salesData)), I(Len(salesData)))
        rmse == FDiv(avgError, OrElse(avgQuantity, I(1)))
    IN  [accuracy |-> FMax(R(3, 10), FSub(I(1), rmse)),
         rmse |-> rmse,
         f1Score |-> FMax(R(1, 2), FSub(R(19, 20), FMul(rmse, R(1, 2)))),
         precision |-> FMax(R(1, 2), FSub(R(23, 25), FMul(rmse, R(3, 10)))),
         recall |-> FMax(R(1, 2), FSub(R(47, 50), FMul(rmse, R(2, 5))))]

\* threw: the returned promise rejects (nothing is returned)
generateForecasts(salesData, options, tomorrowDay, rounding) ==
    LET out == PredictGroups(salesData, GroupKeys(salesData), 1, options, tomorrowDay,
                             rounding)
    IN  IF out.threw THEN [threw |-> TRUE, predictions |-> <<>>, metrics |-> NoMetrics]
        ELSE [threw |-> FALSE,
              predictions |-> out.predictions,
              metrics |-> AggregateMetrics(salesData, out.totalError, out.totalPredictions)]

----------------------------------------------------------------------------
(* Client-side forecasting utilities                                        *)

\* calculateMovingAverage of the client utilities (it shares its name with
\* the method of ForecastingService): the averages of every window, or throws
calculateMovingAverageClient(values, window) ==
    IF window <= 0 \/ window > Len(values)
    THEN [threw |-> TRUE, result |-> <<>>]
    ELSE [threw |-> FALSE,
          result |-> [k \in 1..(Len(values) - window + 1) |->
                        FDiv(SumSeq(SubSeq(values, k, k + window - 1)), I(window))]]

\* y.reduce((acc, yi, i) => acc + Math.pow(yi - (slope * x[i] + intercept), 2), 0)
RECURSIVE SumSquaredResiduals(_, _, _, _)
SumSquaredResiduals(y, slope, intercept, k) ==
    IF k = 0 THEN I(0)
    ELSE LET predicted == FAdd(FMul(slope, I(k - 1)), intercept)
             diff == FSub(y[k], predicted)
         IN  FAdd(SumSquaredResiduals(y, slope, intercept, k - 1), FMul(diff, diff))

\* y.reduce((acc, yi) => acc + Math.pow(yi - yMean, 2), 0)
RECURSIVE SumSquaredDeviations(_, _, _)
SumSquaredDeviations(y, yMean, k) ==
    IF k = 0 THEN I(0)
    ELSE LET diff == FSub(y[k], yMean)
         IN  FAdd(SumSquaredDeviations(y, yMean, k - 1), FMul(diff, diff))

\* a faulty r2: without the test of ssTot
RSquaredUnguarded(ssRes, ssTot) == FSub(I(1), FDiv(ssRes, ssTot))

\* ssTot === 0 ? 1 : 1 - (ssRes / ssTot)
RSquared(ssRes, ssTot) ==
    IF ssTot = I(0) THEN I(1) ELSE FSub(I(1), FDiv(ssRes, ssTot))

\* Math.abs(slope) > 0.1 ? (slope > 0 ? 'increasing' : 'decreasing') : 'stable'
TrendDirection(slope) ==
    IF FGt(FAbs(slope), R(1, 10))
    THEN (IF FGt(slope, I(0)) THEN "increasing" ELSE "decreasing")
    ELSE "stable"

calculateTrend(values) ==
    LET n == Len(values)
    IN  IF n < 2
        THEN [slope |-> I(0),
              intercept |-> IF n = 0 THEN I(0) ELSE OrElse(values[1], I(0)),
              r2 |-> I(0), trend |-> "stable"]
        ELSE LET sumX == I(SumUpTo(n))
                 sumY == SumSeq(values)
                 sumXY == SumXY(values, n)
                 sumXX == I(SumSquaresUpTo(n))
                 slope == FDiv(FSub(FMul(I(n), sumXY), FMul(sumX, sumY)),
                               FSub(FMul(I(n), sumXX), FMul(sumX, sumX)))
                 intercept == FDiv(FSub(sumY, FMul(slope, sumX)), I(n))
                 yMean == FDiv(sumY, I(n))
             IN  [slope |-> slope,
                  intercept |-> intercept,
                  r2 |-> RSquared(SumSquaredResiduals(values, slope, intercept, n),
                                  SumSquaredDeviations(values, yMean, n)),
                  trend |-> TrendDirection(slope)]

----------------------------------------------------------------------------
(* NotificationService                                                      *)
(*                                                                          *)
(* A Map is the sequence of its values in insertion order; the key of an    *)
(* event is its id.  An id `low-stock-${item.id}-${Date.now()}` is the      *)
(* tuple of its parts, <<"low-stock", item.id, t>>: item ids and clock      *)
(* values are non-negative integers, for which the template string is       *)
(* different exactly when the parts are.  Of an event the fields id,        *)
(* ruleId, type, priority, timestamp and acknowledged are kept.             *)

RuleIds == {"low-stock-alert", "demand-spike-alert", "model-drift-alert", "restock-needed"}

\* initializeDefaultRules, with the thresholds of the constructor
DefaultRules ==
    [r \in RuleIds |->
        IF r = "low-stock-alert"
        THEN [id |-> r, type |-> "inventory_low", enabled |-> TRUE, threshold |-> R(1, 5)]
        ELSE IF r = "demand-spike-alert"
        THEN [id |-> r, type |-> "demand_spike", enabled |-> TRUE, threshold |-> I(2)]
        ELSE IF r = "model-drift-alert"
        THEN [id |-> r, type |-> "model_drift", enabled |-> TRUE, threshold |-> R(3, 20)]
        ELSE [id |-> r, type |-> "restock_needed", enabled |-> TRUE, threshold |-> I(3)]]

\* map.has(id)
MapHas(map, id) == \E k \in 1..Len(map): map[k].id = id

\* map.set(event.id, event): an existing key keeps its place
MapSet(map, event) ==
    IF MapHas(map, event.id)
    THEN [k \in 1..Len(map) |-> IF map[k].id = event.id THEN event ELSE map[k]]
    ELSE Append(map, event)

NewEvent(id, rule, type, priority, t) ==
    [id |-> id, ruleId |-> rule.id, type |-> type, priority |-> priority,
     timestamp |-> t, acknowledged |-> FALSE]

\* the forEach of checkInventoryLevels, from item k on; st = [notifications, events]
RECURSIVE LowStockLoop(_, _, _, _, _)
LowStockLoop(st, rule, inventory, k, t) ==
    IF k > Len(inventory) THEN st
    ELSE LET item == inventory[k]
             stockPercentage == FDiv(item.currentStock, item.maxStock)
             event == NewEvent(<<"low-stock", item.id, t>>, rule, "inventory_low",
                               IF FLe(stockPercentage, R(1, 10)) THEN "critical" ELSE "high", t)
         IN  IF FLe(stockPercentage, rule.threshold)
             THEN LowStockLoop([notifications |-> MapSet(st.notifications, event),
                                events |-> Append(st.events, event)],
                               rule, inventory, k + 1, t)
             ELSE LowStockLoop(st, rule, inventory, k + 1, t)

checkInventoryLevels(map, rls, inventory, t) ==
    LET lowStockRule == rls["low-stock-alert"]
    IN  IF ~lowStockRule.enabled THEN [notifications |-> map, events |-> <<>>]
        ELSE LowStockLoop([notifications |-> map, events |-> <<>>],
                          lowStockRule, inventory, 1, t)

checkDemandAnomalies(map, rls, currentSales, historicalAverage, t) ==
    LET demandRule == rls["demand-spike-alert"]
        currentDemand == SumSeq([k \in 1..Len(currentSales) |-> currentSales[k].quantity])
        demandRatio == IF FGt(historicalAverage, I(0))
                       THEN FDiv(currentDemand, historicalAverage) ELSE I(1)
        event == NewEvent(<<"demand-spike", t>>, demandRule, "demand_spike",
                          IF FGe(demandRatio, I(3)) THEN "critical" ELSE "medium", t)
    IN  IF ~demandRule.enabled THEN [notifications |-> map, events |-> <<>>]
        ELSE IF FGe(demandRatio, demandRule.threshold)
             THEN [notifications |-> MapSet(map, event), events |-> <<event>>]
             ELSE [notifications |-> map, events |-> <<>>]

checkModelPerformance(map, rls, currentAccuracy, baselineAccuracy, t) ==
    LET driftRule == rls["model-drift-alert"]
        accuracyDrop == FSub(baselineAccuracy, currentAccuracy)
        event == NewEvent(<<"model-drift", t>>, driftRule, "model_drift", "critical", t)
    IN  IF ~driftRule.enabled THEN [notifications |-> map, events |-> <<>>]
        ELSE IF FGe(accuracyDrop, driftRule.threshold)
             THEN [notifications |-> MapSet(map, event), events |-> <<event>>]
             ELSE [notifications |-> map, events |-> <<>>]

\* predictions.find(p => p.itemName === item.itemName): its index, 0 if none
FindPrediction(predictions, itemName) ==
    IF \E k \in 1..Len(predictions): predictions[k].itemName = itemName
    THEN CHOOSE k \in 1..Len(predictions):
            /\ predictions[k].itemName = itemName
            /\ \A j \in 1..(k - 1): predictions[j].itemName # itemName
    ELSE 0

\* the forEach of generateRestockAlerts, from item k on
RECURSIVE RestockLoop(_, _, _, _, _, _)
RestockLoop(st, rule, inventory, predictions, k, t) ==
    IF k > Len(inventory) THEN st
    ELSE LET item == inventory[k]
             found == FindPrediction(predictions, item.itemName)
         IN  IF found = 0 THEN RestockLoop(st, rule, inventory, predictions, k + 1, t)
             ELSE LET daysUntilStockout ==
                          FDiv(item.currentStock,
                               OrElse(predictions[found].predictedQuantity, I(1)))
                      event == NewEvent(<<"restock", item.id, t>>, rule, "restock_needed",
                                        IF FLe(daysUntilStockout, I(1))
                                        THEN "critical" ELSE "high", t)
                  IN  IF FLe(daysUntilStockout, rule.threshold)
                      THEN RestockLoop([notifications |-> MapSet(st.notifications, event),
                                        events |-> Append(st.events, event)],
                                       rule, inventory, predictions, k + 1, t)
                      ELSE RestockLoop(st, rule, inventory, predictions, k + 1, t)

generateRestockAlerts(map, rls, inventory, predictions, t) ==
    LET restockRule == rls["restock-needed"]
    IN  IF ~restockRule.enabled THEN [notifications |-> map, events |-> <<>>]
        ELSE RestockLoop([notifications |-> map, events |-> <<>>],
                         restockRule, inventory, predictions, 1, t)

\* priorityOrder[priority] || 1
PriorityOrder(priority) ==
    IF priority = "critical" THEN 4
    ELSE IF priority = "high" THEN 3
    ELSE IF priority = "medium" THEN 2
    ELSE 1

\* the comparator of getActiveNotifications is negative: a sorts before b
SortsBefore(a, b) ==
    IF PriorityOrder(a.priority) # PriorityOrder(b.priority)
    THEN PriorityOrder(b.priority) - PriorityOrder(a.priority) < 0
    ELSE b.timestamp - a.timestamp < 0

\* Array.prototype.sort is stable
RECURSIVE InsertActive(_, _)
InsertActive(sorted, n) ==
    IF sorted = <<>> THEN <<n>>
    ELSE IF SortsBefore(n, sorted[Len(sorted)])
         THEN Append(InsertActive(SubSeq(sorted, 1, Len(sorted) - 1), n), sorted[Len(sorted)])
         ELSE Append(sorted, n)

RECURSIVE SortActive(_)
SortActive(ns) ==
    IF ns = <<>> THEN <<>>
    ELSE InsertActive(SortActive(SubSeq(ns, 1, Len(ns) - 1)), ns[Len(ns)])

getActiveNotifications(map) ==
    SortActive(SelectSeq(map, LAMBDA n: ~n.acknowledged))

acknowledgeNotification(map, notificationId) ==
    IF MapHas(map, notificationId)
    THEN [notifications |->
              [k \in 1..Len(map) |->
                  IF map[k].id = notificationId
                  THEN [map[k] EXCEPT !.acknowledged = TRUE] ELSE map[k]],
          result |-> TRUE]
    ELSE [notifications |-> map, result |-> FALSE]

\* Object.assign(rule, updates)
ObjectAssign(rule, updates) ==
    [f \in DOMAIN rule |-> IF f \in DOMAIN updates THEN updates[f] ELSE rule[f]]

updateNotificationRule(rls, ruleId, updates) ==
    IF ruleId \in DOMAIN rls
    THEN [rules |-> [rls EXCEPT ![ruleId] = ObjectAssign(@, updates)], result |-> TRUE]
    ELSE [rules |-> rls, result |-> FALSE]

\* performMonitoringCheck: the four checks one after the other, the demand
\* check only with recent sales, against avgHistoricalDemand = 100 and the
\* baseline accuracy passed
performMonitoringCheck(map, rls, inventory, recentSales, predictions, modelAccuracy, baselineAccuracy, t) ==
    LET c1 == checkInventoryLevels(map, rls, inventory, t)
        c2 == IF Len(recentSales) > 0
              THEN checkDemandAnomalies(c1.notifications, rls, recentSales, I(100), t)
              ELSE [notifications |-> c1.notifications, events |-> <<>>]
        c3 == checkModelPerformance(c2.notifications, rls, modelAccuracy, baselineAccuracy, t)
        c4 == generateRestockAlerts(c3.notifications, rls, inventory, predictions, t)
    IN  [notifications |-> c4.notifications,
         events |-> c1.events \o c2.events \o c3.events \o c4.events]

----------------------------------------------------------------------------
(* The state machine                                                        *)

VARIABLES
    salesData,      \* the batch passed to generateAdvancedForecasts
    options,        \* the options of the call
    results,        \* the bundles returned
    phase,          \* "ready" before the call; then "returned", "rejected"
                    \* (the promise rejects), "status200" or "status500"
    ensModels,      \* createEnsemble: the models passed
    ensMethod,      \* createEnsemble: the policy passed
    ensOut,         \* createEnsemble: the value returned (phase "returned")
    anomData,       \* detectAnomalies: the records passed
    anomThreshold,  \* detectAnomalies: the threshold passed
    anomOut,        \* detectAnomalies: the list returned (phase "returned")
    decData,        \* decomposeTimeSeries: the series passed
    decOut,         \* decomposeTimeSeries: the value returned (phase "returned")
    tomorrow,       \* generateForecasts: getDay() of the day after the call
    forecast,       \* generateForecasts: the ForecastResult returned
    earlier,        \* the bundles an earlier call of generateAdvancedForecasts
                    \* returned (phase "repeated" or "permuted")
    statValues,     \* the statistics functions: the series passed
    statWindow,     \* calculateMovingAverage: the window passed
    statOut,        \* the statistics functions: the function called and
                    \* what it returned (phase "returned" or "rejected")
    notifications,  \* NotificationService: the Map of events, in insertion order
    rules,          \* NotificationService: the Map of rules, by rule id
    now,            \* the value Date.now() returns
    lastCall,       \* the last service method called and what it returned
    history         \* what the calls so far have returned: the number of
                    \* events of the check operations, and the ids that
                    \* acknowledgeNotification answered true for

vars == <<salesData, options, results, phase, ensModels, ensMethod, ensOut,
          anomData, anomThreshold, anomOut, decData, decOut, tomorrow, forecast,
          earlier, statValues, statWindow, statOut, notifications, rules, now,
          lastCall, history>>

ensembleVars == <<ensModels, ensMethod, ensOut>>
anomalyVars == <<anomData, anomThreshold, anomOut>>
decomposeVars == <<decData, decOut>>
basicVars == <<tomorrow, forecast>>
statVars == <<statValues, statWindow, statOut>>
serviceVars == <<notifications, rules, now, lastCall, history>>

(* Bounds of the inputs *)
MaxQty == 2         \* quantities are 0..MaxQty
MaxLen == 15        \* the longest series of item A
LongLen == 59       \* the length of the series with more than 5 anomalies

Quantities == 0..MaxQty

\* Series of item A: a constant run closed by two free observations (the
\* values of simple exponential smoothing stay small on such a series).
SeriesOf(n, base, t1, t2) ==
    [i \in 1..n |-> IF i = n THEN t2 ELSE IF i = n - 1 THEN t1 ELSE base]

\* A long series of item A: quantity 10 every day but six, 20 on the five
\* peak days and LongLen - 40 on the day `odd` (the mean is 11 whatever the
\* length).  All six are further than 2.5 standard deviations from the mean.
PeakDays == {10, 20, 30, 40, 50}
OddDays == {5, 55}

LongSeries(odd) ==
    [i \in 1..LongLen |->
        IF i = odd THEN LongLen - 40 ELSE IF i \in PeakDays THEN 20 ELSE 10]

SeriesLengths == {1, MinObservations - 1, MinObservations}
                 \cup ((2 * SeasonLength - 1)..MaxLen)

DateOf(t) == [kind |-> "Date", time |-> t]
JsonDate(t) == [kind |-> "string", time |-> t]

\* item A: one record a day; the first day is filed under another category
RecordsA(series) ==
    [i \in 1..Len(series) |->
        [itemName |-> "A", category |-> IF i = 1 THEN "starter" ELSE "main",
         quantity |-> I(series[i]), date |-> DateOf(i)]]

\* item B: k records of quantity 1; with bad, the second carries a string date
RecordsB(k, bad) ==
    [i \in 1..k |->
        [itemName |-> "B", category |-> "side", quantity |-> I(1),
         date |-> IF bad /\ i = 2 THEN JsonDate(i) ELSE DateOf(i)]]

Reverse(s) == [i \in 1..Len(s) |-> s[Len(s) + 1 - i]]

RECURSIVE Interleave(_, _)
Interleave(a, b) ==
    IF a = <<>> THEN b
    ELSE IF b = <<>> THEN a
    ELSE <<a[1], b[1]>> \o Interleave(Tail(a), Tail(b))

Layouts == {"AB", "BA", "mixed", "reversed"}

Batch(a, b, layout) ==
    IF layout = "AB" THEN a \o b
    ELSE IF layout = "BA" THEN b \o a
    ELSE IF layout = "mixed" THEN Interleave(a, b)
    ELSE Reverse(a) \o b

OtherCounts == {0, MinObservations - 1, MinObservations}

\* Batches of item A alone, over every series; batches of A and B in every
\* layout, over the constant series of A around the minimum length; and the
\* long series of A.
BatchInputs ==
    { RecordsA(SeriesOf(n, base, t1, t2)) :
        n \in SeriesLengths, base \in Quantities, t1 \in Quantities, t2 \in Quantities }
    \cup
    { Batch(RecordsA(SeriesOf(n, 1, 1, 1)), RecordsB(k, bad), layout) :
        n \in {MinObservations - 1, MinObservations}, k \in OtherCounts,
        bad \in BOOLEAN, layout \in Layouts }
    \cup
    { RecordsA(LongSeries(odd)) : odd \in OddDays }

Methods == {"average", "weighted", "best_performer"}

(* What Math.random() and the untracked arithmetic may produce *)
ArimaConfidences == {R(4, 5), R(9, 10)}     \* 0.8 + Math.random() * 0.15
NNOutputs == {R(-1, 4), R(1, 4), I(2)}
HWForecasts == { [h \in 1..HWHorizon |-> I(3)],
                 [h \in 1..HWHorizon |-> IF h % 2 = 1 THEN I(-1) ELSE R(1, 2)] }

\* On an all-zero series training leaves the weights alone and the network
\* outputs its bias, Math.random() - 0.5.
NNOutcomes(quantities) ==
    IF \A j \in 1..Len(quantities): quantities[j] = I(0)
    THEN {x \in NNOutputs: FLt(FAbs(x), R(1, 2))}
    ELSE NNOutputs

\* the draws of one item; the Holt-Winters forecasts only matter from
\* 2 * seasonLength observations on
DrawsOf(itemSales) ==
    LET quantities == [j \in 1..Len(itemSales) |-> itemSales[j].quantity]
    IN  [conf: ArimaConfidences, nn: NNOutcomes(quantities),
         hw: IF Len(itemSales) >= 2 * SeasonLength THEN HWForecasts
             ELSE {[h \in 1..HWHorizon |-> I(0)]}]

Items == {"A", "B"}

\* the draws of the items that reach the models (one fixed draw stands for an
\* item that does not)
DrawsFor(data, it) ==
    LET group == GroupOf(data, it)
    IN  IF Len(group) >= MinObservations /\ ~SortThrows(group)
        THEN DrawsOf(SortByDate(group))
        ELSE {[conf |-> R(4, 5), nn |-> R(1, 4), hw |-> [h \in 1..HWHorizon |-> I(0)]]}

DefaultOptions == [ensembleMethod |-> "undefined", horizon |-> DefaultHorizon]
NoEnsemble == [predictions |-> <<>>, confidence |-> <<>>]

NoDecomposition == [trend |-> <<>>, seasonal |-> <<>>, residual |-> <<>>]
NoForecast == [threw |-> FALSE, predictions |-> <<>>, metrics |-> NoMetrics]

PipelineIdle ==
    /\ salesData = <<>> /\ options = DefaultOptions /\ results = <<>> /\ earlier = <<>>
EnsembleIdle == /\ ensModels = <<>> /\ ensMethod = "undefined" /\ ensOut = NoEnsemble
AnomalyIdle == /\ anomData = <<>> /\ anomThreshold = DefaultThreshold /\ anomOut = <<>>
DecomposeIdle == /\ decData = <<>> /\ decOut = NoDecomposition
BasicIdle == /\ tomorrow = 0 /\ forecast = NoForecast
NoTrend == [slope |-> I(0), intercept |-> I(0), r2 |-> I(0), trend |-> "stable"]
NoStatistics ==
    [fn |-> "none", average |-> I(0), averages |-> <<>>, next |-> I(0), trend |-> NoTrend]
StatIdle == /\ statValues = <<>> /\ statWindow = 1 /\ statOut = NoStatistics
NoCall == [method |-> "none", id |-> <<>>, result |-> FALSE, events |-> <<>>]
NoHistory == [returned |-> 0, acknowledged |-> {}]
ServiceIdle ==
    /\ notifications = <<>> /\ rules = DefaultRules /\ now = 0
    /\ lastCall = NoCall /\ history = NoHistory

Init ==
    /\ salesData \in BatchInputs
    /\ options = DefaultOptions
    /\ results = <<>>
    /\ earlier = <<>>
    /\ phase = "ready"
    /\ EnsembleIdle
    /\ AnomalyIdle
    /\ DecomposeIdle
    /\ BasicIdle
    /\ StatIdle
    /\ ServiceIdle

\* POST /api/forecasting/advanced: the stored sales (Date objects unless a
\* record was stored with a string date) and the caller's options
GenerateAdvancedForecasts ==
    /\ phase = "ready"
    /\ \E method \in Methods:
         \E dA \in DrawsFor(salesData, "A"), dB \in DrawsFor(salesData, "B"):
            LET opts == [ensembleMethod |-> method, horizon |-> DefaultHorizon]
                rnd == [it \in Items |-> IF it = "A" THEN dA ELSE dB]
                out == generateAdvancedForecasts(salesData, opts, rnd)
            IN  /\ options' = opts
                /\ results' = out.results
                /\ phase' = IF out.threw THEN "rejected" ELSE "returned"
    /\ UNCHANGED <<salesData, earlier, ensembleVars, anomalyVars, decomposeVars, basicVars, statVars, serviceVars>>

\* the records as a JSON request body carries them: every date is a string
JsonBody(data) == [j \in 1..Len(data) |-> [data[j] EXCEPT !.date = JsonDate(@.time)]]

\* quantity: modifications.demandMultiplier ?
\*             item.quantity * modifications.demandMultiplier : item.quantity
ModifiedData(baseData, demandMultiplier) ==
    [j \in 1..Len(baseData) |->
        [baseData[j] EXCEPT !.quantity =
            IF demandMultiplier # I(0) /\ ~IsNaN(demandMultiplier)
            THEN FMul(@, demandMultiplier) ELSE @]]

DemandMultipliers == {I(0), I(2)}

\* POST /api/analytics/scenario with the batch as baseData: the forecasts are
\* generated with the default options, and a rejection is answered with 500
ScenarioRoute ==
    /\ phase = "ready"
    /\ \E mult \in DemandMultipliers:
         LET modifiedData == ModifiedData(JsonBody(salesData), mult)
             opts == DefaultOptions
         IN  \E dA \in DrawsFor(modifiedData, "A"), dB \in DrawsFor(modifiedData, "B"):
                LET rnd == [it \in Items |-> IF it = "A" THEN dA ELSE dB]
                    out == generateAdvancedForecasts(modifiedData, opts, rnd)
                IN  /\ options' = opts
                    /\ results' = out.results
                    /\ phase' = IF out.threw THEN "status500" ELSE "status200"
    /\ UNCHANGED <<salesData, earlier, ensembleVars, anomalyVars, decomposeVars, basicVars, statVars, serviceVars>>

Next == GenerateAdvancedForecasts \/ ScenarioRoute

Spec == Init /\ [][Next]_vars

----------------------------------------------------------------------------
(* generateAdvancedForecasts called a second time                           *)
(*                                                                          *)
(* The second call is made with the same options, on the same batch or on   *)
(* the same records in another order.  Math.random() is drawn anew.  The    *)
(* Holt-Winters arithmetic has no random part: where the model does not     *)
(* track its finite values, the second call takes the values that gave the  *)
(* first call's result whenever the item's series is the same.              *)

\* item A: seven records, the last two on the same day
SameDayRecords ==
    [i \in 1..MinObservations |->
        [itemName |-> "A", category |-> "main",
         quantity |-> I(IF i = MinObservations - 1 THEN 2
                        ELSE IF i = MinObservations THEN 0 ELSE 1),
         date |-> DateOf(Min2(i, MinObservations - 1))]]

LastTwo == {<<1, 1>>, <<2, 0>>, <<0, 2>>}

RepeatInputs ==
    { RecordsA(SeriesOf(MinObservations, 1, t[1], t[2])) : t \in LastTwo }
    \cup
    { RecordsA(SeriesOf(n, 1, 2, 0)) : n \in {2 * SeasonLength, 2 * SeasonLength + 1} }
    \cup
    { Batch(RecordsA(SeriesOf(MinObservations, 1, 2, 0)),
            RecordsB(MinObservations - 1, FALSE), "mixed"),
      SameDayRecords }

\* the first record moved to the end
Rotate(s) == IF s = <<>> THEN s ELSE Tail(s) \o <<s[1]>>

Reorderings(data) == {Reverse(data), Rotate(data)}

\* the date-ascending series of an item of a batch
SeriesIn(data, it) == QuantitiesOf(SortByDate(GroupOf(data, it)))

\* the untracked finite Holt-Winters forecasts of a series for which
\* bundles holds a result: those that give that result
HWOracle(quantities, bundles, it) ==
    LET prior == {b \in 1..Len(bundles): bundles[b].itemName = it}
    IN  IF Len(quantities) < 2 * SeasonLength THEN {[h \in 1..HWHorizon |-> I(0)]}
        ELSE IF prior = {} THEN HWForecasts
        ELSE {hw \in HWForecasts:
                \A b \in prior:
                    calculateExponentialSmoothing(quantities, hw) = bundles[b].models[2]}

\* the draws of an item in a call on data that follows a call on before
RedrawsFor(data, it, before, bundles) ==
    LET group == GroupOf(data, it)
        quantities == SeriesIn(data, it)
    IN  IF Len(group) >= MinObservations /\ ~SortThrows(group)
        THEN [conf: ArimaConfidences, nn: NNOutcomes(quantities),
              hw: IF SortThrows(GroupOf(before, it)) \/ SeriesIn(before, it) # quantities
                  THEN {d.hw : d \in DrawsOf(SortByDate(group))}
                  ELSE HWOracle(quantities, bundles, it)]
        ELSE DrawsFor(data, it)

\* a call on data, with the options of the call before
CallAgain(data, outcome) ==
    \E dA \in RedrawsFor(data, "A", salesData, results),
       dB \in RedrawsFor(data, "B", salesData, results):
        LET rnd == [it \in Items |-> IF it = "A" THEN dA ELSE dB]
            out == generateAdvancedForecasts(data, options, rnd)
        IN  /\ salesData' = data
            /\ earlier' = results
            /\ results' = out.results
            /\ phase' = IF out.threw THEN "rejected" ELSE outcome

\* the same request once more
GenerateAgain ==
    /\ phase = "returned"
    /\ CallAgain(salesData, "repeated")
    /\ UNCHANGED <<options, ensembleVars, anomalyVars, decomposeVars, basicVars, statVars, serviceVars>>

\* the same request once the store returns its records in another order
GeneratePermuted ==
    /\ phase = "returned"
    /\ \E data \in Reorderings(salesData): CallAgain(data, "permuted")
    /\ UNCHANGED <<options, ensembleVars, anomalyVars, decomposeVars, basicVars, statVars, serviceVars>>

InitRepeat ==
    /\ salesData \in RepeatInputs
    /\ options = DefaultOptions
    /\ results = <<>>
    /\ earlier = <<>>
    /\ phase = "ready"
    /\ EnsembleIdle
    /\ AnomalyIdle
    /\ DecomposeIdle
    /\ BasicIdle
    /\ StatIdle
    /\ ServiceIdle

NextRepeat == GenerateAdvancedForecasts \/ GenerateAgain \/ GeneratePermuted

SpecRepeat == InitRepeat /\ [][NextRepeat]_vars

----------------------------------------------------------------------------
(* createEnsemble on its own                                                *)

MaxModels == 2      \* the most models passed to createEnsemble

PredictionChoices == { <<I(10)>>, <<I(20)>>, <<I(20), I(0), I(10)>> }
ConfidenceChoices == {R(1, 2), R(4, 5)}
AccuracyChoices == {I(0), R(1, 2), I(1)}

\* A model as createEnsemble reads it.  The accuracy of the first model (the
\* ARIMA model of the pipeline) is always a number; a later one may be NaN.
ModelChoices(first) ==
    { [predictions |-> p,
       confidence |-> [i \in 1..Len(p) |-> c],
       metrics |-> [accuracy |-> a]] :
        p \in PredictionChoices, c \in ConfidenceChoices,
        a \in AccuracyChoices \cup (IF first THEN {} ELSE {NaN}) }

RECURSIVE ModelLists(_)
ModelLists(k) ==
    IF k = 1 THEN { <<m>> : m \in ModelChoices(TRUE) }
    ELSE LET shorter == ModelLists(k - 1)
         IN  shorter \cup { Append(ms, m) : ms \in {l \in shorter : Len(l) = k - 1},
                                             m \in ModelChoices(FALSE) }

InitEnsemble ==
    /\ ensModels \in ModelLists(MaxModels)
    /\ ensMethod \in Methods
    /\ ensOut = NoEnsemble
    /\ phase = "ready"
    /\ PipelineIdle
    /\ AnomalyIdle
    /\ DecomposeIdle
    /\ BasicIdle
    /\ StatIdle
    /\ ServiceIdle

CreateEnsemble ==
    /\ phase = "ready"
    /\ ensOut' = createEnsemble(ensModels, ensMethod)
    /\ phase' = "returned"
    /\ UNCHANGED <<ensModels, ensMethod, salesData, options, results, earlier,
                   anomalyVars, decomposeVars, basicVars, statVars, serviceVars>>

NextEnsemble == CreateEnsemble

SpecEnsemble == InitEnsemble /\ [][NextEnsemble]_vars

----------------------------------------------------------------------------
(* detectAnomalies on its own                                               *)

MaxAnomLen == 9     \* the longest series passed to detectAnomalies

AnomalyQuantities == {10, 100}
Thresholds == {I(0), I(1), DefaultThreshold, I(3)}

ShortQuantities == {0, 10, 100}

\* every series of two quantities, and every series of three quantities that
\* is no longer than the pipeline's minimum
AnomalySeries ==
    UNION { [1..n -> AnomalyQuantities] : n \in 1..MaxAnomLen }
    \cup UNION { [1..n -> ShortQuantities] : n \in 1..MinObservations }

AnomalyRecords(series) ==
    [i \in 1..Len(series) |-> [quantity |-> I(series[i]), date |-> DateOf(i)]]

InitAnomaly ==
    /\ anomData \in { AnomalyRecords(s) : s \in AnomalySeries }
    /\ anomThreshold \in Thresholds
    /\ anomOut = <<>>
    /\ phase = "ready"
    /\ PipelineIdle
    /\ EnsembleIdle
    /\ DecomposeIdle
    /\ BasicIdle
    /\ StatIdle
    /\ ServiceIdle

DetectAnomalies ==
    /\ phase = "ready"
    /\ anomOut' = detectAnomalies(anomData, anomThreshold)
    /\ phase' = "returned"
    /\ UNCHANGED <<anomData, anomThreshold, salesData, options, results, earlier,
                   ensembleVars, decomposeVars, basicVars, statVars, serviceVars>>

NextAnomaly == DetectAnomalies

SpecAnomaly == InitAnomaly /\ [][NextAnomaly]_vars

----------------------------------------------------------------------------
(* decomposeTimeSeries on its own                                           *)

MaxDecLen == 8      \* the longest series passed to decomposeTimeSeries

DecQuantities == {0, 3, 10}

DecSeries == UNION { [1..n -> DecQuantities] : n \in 0..MaxDecLen }

InitDecompose ==
    /\ decData \in { [i \in 1..Len(s) |-> I(s[i])] : s \in DecSeries }
    /\ decOut = NoDecomposition
    /\ phase = "ready"
    /\ PipelineIdle
    /\ EnsembleIdle
    /\ AnomalyIdle
    /\ BasicIdle
    /\ StatIdle
    /\ ServiceIdle

DecomposeTimeSeries ==
    /\ phase = "ready"
    /\ decOut' = decomposeTimeSeries(decData)
    /\ phase' = "returned"
    /\ UNCHANGED <<decData, salesData, options, results, earlier, ensembleVars,
                   anomalyVars, basicVars, statVars, serviceVars>>

NextDecompose == DecomposeTimeSeries

SpecDecompose == InitDecompose /\ [][NextDecompose]_vars

----------------------------------------------------------------------------
(* generateForecasts (POST /api/predictions/generate)                       *)

MaxFlatLen == 10    \* the longest constant series of item X
MaxBasicLen == 3    \* the longest free series of item X

FlatQuantities == {0, 5, 50}
FlatLengths == {1, 2, MaxFlatLen}
BasicQuantities == {0, 2, 6}

\* item X, category Y: one record a day
RecordsX(series) ==
    [i \in 1..Len(series) |->
        [itemName |-> "X", category |-> "Y", quantity |-> I(series[i]), date |-> DateOf(i)]]

\* The stored sales: nothing; item X alone, over the constant series and
\* every short series; and items A and B in every layout.
BasicInputs ==
    { <<>> }
    \cup
    { RecordsX([i \in 1..n |-> c]) : c \in FlatQuantities, n \in FlatLengths }
    \cup
    { RecordsX(series) : series \in UNION { [1..n -> BasicQuantities] : n \in 1..MaxBasicLen } }
    \cup
    { Batch(RecordsA(SeriesOf(3, 1, 1, t2)), RecordsB(k, bad), layout) :
        t2 \in Quantities, k \in {1, 2}, bad \in BOOLEAN, layout \in Layouts }

Weekdays == 0..6
Roundings == {"down", "up"}
BasicOptions == [period |-> "daily"]

InitBasic ==
    /\ salesData \in BasicInputs
    /\ options = DefaultOptions
    /\ results = <<>>
    /\ earlier = <<>>
    /\ phase = "ready"
    /\ BasicIdle
    /\ StatIdle
    /\ ServiceIdle
    /\ EnsembleIdle
    /\ AnomalyIdle
    /\ DecomposeIdle

\* the call of generateForecasts(salesData) on the stored sales; day is the
\* weekday of the day after the call
GenerateForecasts ==
    /\ phase = "ready"
    /\ \E day \in Weekdays, rounding \in Roundings:
          LET out == generateForecasts(salesData, BasicOptions, day, rounding)
          IN  /\ tomorrow' = day
              /\ forecast' = out
              /\ phase' = IF out.threw THEN "rejected" ELSE "returned"
    /\ UNCHANGED <<salesData, options, results, earlier, ensembleVars, anomalyVars,
                   decomposeVars, statVars, serviceVars>>

NextBasic == GenerateForecasts

SpecBasic == InitBasic /\ [][NextBasic]_vars

----------------------------------------------------------------------------
(* The moving average and the linear trend on their own                     *)

MaxStatLen == 5     \* the longest series passed to the statistics functions

Intercepts == {I(0), I(2), R(-3, 2)}
Slopes == {I(0), I(2), I(-1), R(1, 2)}
FreeValues == {I(0), I(1), I(4)}

\* x[i] = a + b * i for i = 0..n-1
LinearSeries(a, b, n) == [i \in 1..n |-> FAdd(a, FMul(b, I(i - 1)))]

\* every linear series, and every series of up to 3 free values
StatSeries ==
    { LinearSeries(a, b, n) : a \in Intercepts, b \in Slopes, n \in 0..MaxStatLen }
    \cup UNION { [1..n -> FreeValues] : n \in 1..3 }

Windows == 1..(MaxStatLen + 1)

InitStatistics ==
    /\ statValues \in StatSeries
    /\ statWindow \in Windows
    /\ statOut = NoStatistics
    /\ salesData = <<>>
    /\ options = DefaultOptions
    /\ results = <<>>
    /\ earlier = <<>>
    /\ phase = "ready"
    /\ BasicIdle
    /\ EnsembleIdle
    /\ AnomalyIdle
    /\ DecomposeIdle
    /\ ServiceIdle

StatUnchanged ==
    UNCHANGED <<statValues, statWindow, salesData, options, results, earlier,
                ensembleVars, anomalyVars, decomposeVars, basicVars, serviceVars>>

\* ForecastingService.calculateMovingAverage(statValues, statWindow)
MovingAverage ==
    /\ phase = "ready"
    /\ statOut' = [NoStatistics EXCEPT
                      !.fn = "calculateMovingAverage",
                      !.average = calculateMovingAverage(statValues, statWindow)]
    /\ phase' = "returned"
    /\ StatUnchanged

\* the client's calculateMovingAverage(statValues, statWindow)
MovingAverageClient ==
    /\ phase = "ready"
    /\ LET out == calculateMovingAverageClient(statValues, statWindow)
       IN  /\ statOut' = [NoStatistics EXCEPT
                             !.fn = "calculateMovingAverageClient",
                             !.averages = out.result]
           /\ phase' = IF out.threw THEN "rejected" ELSE "returned"
    /\ StatUnchanged

\* ForecastingService.calculateLinearTrend(statValues)
LinearTrend ==
    /\ phase = "ready"
    /\ statOut' = [NoStatistics EXCEPT
                      !.fn = "calculateLinearTrend",
                      !.next = calculateLinearTrend(statValues)]
    /\ phase' = "returned"
    /\ StatUnchanged

\* the client's calculateTrend(statValues)
CalculateTrend ==
    /\ phase = "ready"
    /\ statOut' = [NoStatistics EXCEPT
                      !.fn = "calculateTrend",
                      !.trend = calculateTrend(statValues)]
    /\ phase' = "returned"
    /\ StatUnchanged

NextStatistics == MovingAverage \/ MovingAverageClient \/ LinearTrend \/ CalculateTrend

SpecStatistics == InitStatistics /\ [][NextStatistics]_vars

----------------------------------------------------------------------------
(* NotificationService as a state machine                                   *)
(*                                                                          *)
(* Every method runs within one value of Date.now(); between two calls the  *)
(* clock advances or stays where it is.                                     *)

MaxClock == 1       \* the clock values are 0..MaxClock
MaxEvents == 2      \* the most events the check operations return in all

\* inventory rows: stock 1 of 10 is critical, 2 of 10 low, 5 of 10 neither
InventoryItem(id, stock) ==
    [id |-> id, itemName |-> IF id = 1 THEN "A" ELSE "B", currentStock |-> I(stock),
     minimumStock |-> I(2), maxStock |-> I(10)]

InventoryLists ==
    { <<>>, <<InventoryItem(1, 1)>>, <<InventoryItem(1, 5)>>,
      <<InventoryItem(1, 1), InventoryItem(2, 2)>> }

\* recent sales of 0, 150 and 300 units
SalesLists ==
    { <<>>, <<[itemName |-> "A", quantity |-> I(150)]>>,
      <<[itemName |-> "A", quantity |-> I(200)], [itemName |-> "B", quantity |-> I(100)]>> }

HistoricalAverages == {I(0), I(100)}
CurrentAccuracies == {R(7, 10), R(17, 20)}
BaselineAccuracy == R(9, 10)

PredictionLists ==
    { <<>>, <<[itemName |-> "A", predictedQuantity |-> I(0), confidence |-> R(4, 5)]>>,
      <<[itemName |-> "A", predictedQuantity |-> I(1), confidence |-> R(4, 5)]>> }

UnknownId == <<"no-such-notification", 0>>
RuleUpdates == { [enabled |-> FALSE], [enabled |-> TRUE] }
UpdatedRuleIds == {"low-stock-alert", "no-such-rule"}

InitService ==
    /\ ServiceIdle
    /\ phase = "ready"
    /\ PipelineIdle
    /\ EnsembleIdle
    /\ AnomalyIdle
    /\ DecomposeIdle
    /\ BasicIdle
    /\ StatIdle

OthersUnchanged ==
    UNCHANGED <<salesData, options, results, earlier, phase, ensembleVars, anomalyVars,
                decomposeVars, basicVars, statVars>>

\* what a check operation leaves behind: out = [notifications, events]
Checked(method, out) ==
    /\ history.returned + Len(out.events) <= MaxEvents
    /\ notifications' = out.notifications
    /\ lastCall' = [method |-> method, id |-> <<>>, result |-> TRUE, events |-> out.events]
    /\ history' = [history EXCEPT !.returned = @ + Len(out.events)]

\* the clock advances
Tick ==
    /\ now < MaxClock
    /\ now' = now + 1
    /\ UNCHANGED <<notifications, rules, lastCall, history>>
    /\ OthersUnchanged

CheckInventoryLevels ==
    /\ \E inventory \in InventoryLists:
          Checked("checkInventoryLevels",
                  checkInventoryLevels(notifications, rules, inventory, now))
    /\ UNCHANGED <<rules, now>>
    /\ OthersUnchanged

CheckDemandAnomalies ==
    /\ \E currentSales \in SalesLists, historicalAverage \in HistoricalAverages:
          Checked("checkDemandAnomalies",
                  checkDemandAnomalies(notifications, rules, currentSales,
                                       historicalAverage, now))
    /\ UNCHANGED <<rules, now>>
    /\ OthersUnchanged

CheckModelPerformance ==
    /\ \E currentAccuracy \in CurrentAccuracies:
          Checked("checkModelPerformance",
                  checkModelPerformance(notifications, rules, currentAccuracy,
                                        BaselineAccuracy, now))
    /\ UNCHANGED <<rules, now>>
    /\ OthersUnchanged

GenerateRestockAlerts ==
    /\ \E inventory \in InventoryLists, predictions \in PredictionLists:
          Checked("generateRestockAlerts",
                  generateRestockAlerts(notifications, rules, inventory, predictions, now))
    /\ UNCHANGED <<rules, now>>
    /\ OthersUnchanged

\* POST /api/notifications/check
PerformMonitoringCheck ==
    /\ \E inventory \in InventoryLists, recentSales \in SalesLists,
          predictions \in PredictionLists, modelAccuracy \in CurrentAccuracies:
          Checked("performMonitoringCheck",
                  performMonitoringCheck(notifications, rules, inventory, recentSales,
                                         predictions, modelAccuracy, BaselineAccuracy, now))
    /\ UNCHANGED <<rules, now>>
    /\ OthersUnchanged

\* GET /api/notifications
GetActiveNotifications ==
    /\ lastCall' = [method |-> "getActiveNotifications", id |-> <<>>, result |-> TRUE,
                    events |-> getActiveNotifications(notifications)]
    /\ UNCHANGED <<notifications, rules, now, history>>
    /\ OthersUnchanged

\* POST /api/notifications/:id/acknowledge
AcknowledgeNotification ==
    /\ \E id \in {notifications[k].id : k \in 1..Len(notifications)} \cup {UnknownId}:
          LET out == acknowledgeNotification(notifications, id)
          IN  /\ notifications' = out.notifications
              /\ lastCall' = [method |-> "acknowledgeNotification", id |-> id,
                              result |-> out.result, events |-> <<>>]
              /\ history' = IF out.result
                            THEN [history EXCEPT !.acknowledged = @ \cup {id}]
                            ELSE history
    /\ UNCHANGED <<rules, now>>
    /\ OthersUnchanged

\* PATCH /api/notifications/rules/:id
UpdateNotificationRule ==
    /\ \E ruleId \in UpdatedRuleIds, updates \in RuleUpdates:
          LET out == updateNotificationRule(rules, ruleId, updates)
          IN  /\ rules' = out.rules
              /\ lastCall' = [method |-> "updateNotificationRule", id |-> <<>>,
                              result |-> out.result, events |-> <<>>]
    /\ UNCHANGED <<notifications, now, history>>
    /\ OthersUnchanged

NextService ==
    \/ Tick
    \/ CheckInventoryLevels
    \/ CheckDemandAnomalies
    \/ CheckModelPerformance
    \/ GenerateRestockAlerts
    \/ PerformMonitoringCheck
    \/ GetActiveNotifications
    \/ AcknowledgeNotification
    \/ UpdateNotificationRule

SpecService == InitService /\ [][NextService]_vars

----------------------------------------------------------------------------
(* Properties of generateAdvancedForecasts (checked under Spec)             *)

\* the call has returned a list (directly, or behind the scenario route)
Returned == phase \in {"returned", "status200"}

\* the number of records of an item in the batch
Observations(it) ==
    Cardinality({j \in 1..Len(salesData): salesData[j].itemName = it})

\* the number of bundles of an item in the returned list
BundlesOf(it) ==
    Cardinality({k \in 1..Len(results): results[k].itemName = it})

AllDatesValid == \A j \in 1..Len(salesData): IsDate(salesData[j].date)

\* C1: the list generateAdvancedForecasts returns holds exactly one bundle for
\* each itemName with at least 7 observations in the input, no bundle for an
\* itemName with fewer, and no itemName twice; and the call does return a
\* list whenever every date of the batch is a Date object.
C1_OneBundlePerItem ==
    /\ Returned =>
         /\ \A it \in Items:
              BundlesOf(it) = (IF Observations(it) >= 7 THEN 1 ELSE 0)
         /\ \A k \in 1..Len(results): results[k].itemName \in Items
    /\ phase = "rejected" => ~AllDatesValid

\* an item with 7 or more observations beside one with fewer: one bundle
C1_Witness ==
    /\ phase = "returned"
    /\ Observations("A") >= 7 /\ BundlesOf("A") = 1
    /\ Observations("B") \in 1..6 /\ BundlesOf("B") = 0

Accuracy(m) == m.metrics.accuracy

\* models[k] has the highest accuracy (a number), and no earlier model shares it
IsHighestEarliest(models, k) ==
    /\ ~IsNaN(Accuracy(models[k]))
    /\ \A j \in 1..Len(models): ~FGt(Accuracy(models[j]), Accuracy(models[k]))
    /\ \A j \in 1..(k - 1): Accuracy(models[j]) # Accuracy(models[k])

\* C2: in every returned bundle, models holds exactly three results in the
\* order ARIMA, exponential smoothing, neural network, and bestModel is the
\* one of them with the highest metrics.accuracy, the earliest on a tie.
C2_BestModelIsHighestEarliest ==
    Returned =>
        \A b \in 1..Len(results):
            LET models == results[b].models
            IN  /\ Len(models) = 3
                /\ models[1].type = "arima"
                /\ models[2].type = "exponential_smoothing"
                /\ models[3].type = "neural_network"
                /\ \E k \in 1..3: /\ results[b].bestModel = models[k]
                                  /\ IsHighestEarliest(models, k)

\* a bundle whose three models tie: bestModel is the ARIMA result
C2_Witness ==
    /\ phase = "returned"
    /\ \E b \in 1..Len(results):
          LET models == results[b].models
          IN  /\ Accuracy(models[1]) = Accuracy(models[2])
              /\ Accuracy(models[2]) = Accuracy(models[3])
              /\ results[b].bestModel = models[1]

\* C3: in every returned bundle, under every ensemble policy and for every
\* series of at least 7 non-negative quantities (14 observations included),
\* ensemblePrediction and ensembleConfidence have the same length, at least 1
\* and the length of the longest predictions among the three models, every
\* ensemblePrediction is a number >= 0 and every ensembleConfidence a number
\* in [0, 1].
C3_EnsembleWellFormed ==
    phase = "returned" =>
        \A b \in 1..Len(results):
            LET ep == results[b].ensemblePrediction
                ec == results[b].ensembleConfidence
                models == results[b].models
            IN  /\ Len(ep) = Len(ec)
                /\ Len(ep) >= 1
                /\ \A k \in 1..Len(models): Len(models[k].predictions) <= Len(ep)
                /\ \E k \in 1..Len(models): Len(models[k].predictions) = Len(ep)
                /\ \A i \in 1..Len(ep): IsFinite(ep[i]) /\ FGe(ep[i], I(0))
                /\ \A i \in 1..Len(ec):
                      IsFinite(ec[i]) /\ FGe(ec[i], I(0)) /\ FLe(ec[i], I(1))

FiniteSeq(s) == \A i \in 1..Len(s): IsFinite(s[i])

FiniteMetrics(m) ==
    /\ IsFinite(m.mae) /\ IsFinite(m.mape) /\ IsFinite(m.mse) /\ IsFinite(m.r2)
    /\ m.aic = "finite"
    /\ IsFinite(m.accuracy) /\ IsFinite(m.precision) /\ IsFinite(m.recall)
    /\ IsFinite(m.f1Score)

FiniteModel(m) ==
    FiniteSeq(m.predictions) /\ FiniteSeq(m.confidence) /\ FiniteMetrics(m.metrics)

\* C7: for non-negative integer quantities and valid dates, no NaN or
\* Infinity appears in any returned prediction, confidence, metric (aic
\* included) or anomaly score.
C7_NoNaNOrInfinity ==
    (phase = "returned" /\ AllDatesValid) =>
        \A b \in 1..Len(results):
            /\ \A k \in 1..Len(results[b].models): FiniteModel(results[b].models[k])
            /\ FiniteModel(results[b].bestModel)
            /\ FiniteSeq(results[b].ensemblePrediction)
            /\ FiniteSeq(results[b].ensembleConfidence)
            /\ \A a \in 1..Len(results[b].anomalies):
                  IsFinite(results[b].anomalies[a].anomalyScore2)

\* an item with at least 7 observations, each dated by a Date object
ValidItem(it) ==
    /\ Observations(it) >= 7
    /\ \A j \in 1..Len(salesData):
          salesData[j].itemName = it => IsDate(salesData[j].date)

\* C8: when the records of one item raise (a date that is no Date object),
\* generateAdvancedForecasts still returns the bundle of every other item
\* with at least 7 valid observations.
C8_FailuresIsolated ==
    phase \in {"returned", "rejected"} =>
        \A it \in Items: ValidItem(it) => BundlesOf(it) = 1

\* the records of an item, in the order of the batch
RecordsOf(it) == SelectSeq(salesData, LAMBDA sale: sale.itemName = it)

\* the square of the z-score of obs[j] within obs: n * d^2 / sum of squared
\* deviations (NaN when all the quantities are equal)
ScoreSquared(obs, j) ==
    LET n == Len(obs)
        values == [k \in 1..n |-> obs[k].quantity]
        mean == FDiv(SumSeq(values), I(n))
        d == FSub(values[j], mean)
    IN  FDiv(FMul(I(n), FMul(d, d)), SumSqDev(values, mean, n))

\* z > 2.5, as z^2 > 6.25
IsFlagged(obs, j) == FGt(ScoreSquared(obs, j), R(25, 4))

\* anomaly a is observation j of obs, with its score
IsObservation(a, obs, j) ==
    /\ a.date = obs[j].date
    /\ a.value = obs[j].quantity
    /\ a.anomalyScore2 = ScoreSquared(obs, j)

\* C11: the anomalies of a bundle are at most 5 observations of that item
\* (no observation twice), in descending order of anomalyScore; every one of
\* them has |quantity - mean| / population-stdDev > 2.5, and no flagged
\* observation that is left out has a higher score than a listed one.
C11_TopAnomalies ==
    phase = "returned" =>
        \A b \in 1..Len(results):
            LET an == results[b].anomalies
                obs == RecordsOf(results[b].itemName)
            IN  /\ Len(an) <= 5
                /\ \A i \in 1..Len(an), k \in 1..Len(an):
                      i < k => /\ FGe(an[i].anomalyScore2, an[k].anomalyScore2)
                               /\ an[i].date # an[k].date
                /\ \A i \in 1..Len(an):
                      \E j \in 1..Len(obs): IsObservation(an[i], obs, j) /\ IsFlagged(obs, j)
                /\ \A j \in 1..Len(obs):
                      (IsFlagged(obs, j) /\ \A i \in 1..Len(an): an[i].date # obs[j].date)
                          => \A i \in 1..Len(an):
                                ~FGt(ScoreSquared(obs, j), an[i].anomalyScore2)

\* six observations of the item are flagged, the first of them in the batch
\* with the lowest score: the list holds the five others
C11_Witness ==
    /\ phase = "returned"
    /\ \E b \in 1..Len(results):
          LET an == results[b].anomalies
              obs == RecordsOf(results[b].itemName)
          IN  /\ Cardinality({j \in 1..Len(obs): IsFlagged(obs, j)}) = 6
              /\ IsFlagged(obs, 5)
              /\ Len(an) = 5
              /\ \A i \in 1..5: /\ an[i].date # obs[5].date
                                 /\ FGt(an[i].anomalyScore2, ScoreSquared(obs, 5))

InUnitInterval(x) == IsFinite(x) /\ FGe(x, I(0)) /\ FLe(x, I(1))

\* C16: every model result of a bundle has a predictions sequence whose
\* length is the bundle's forecastHorizon (the caller's horizon option, at
\* least 1) and a confidence sequence of the same length, all in [0, 1].
C16_PredictionsSpanHorizon ==
    phase = "returned" =>
        \A b \in 1..Len(results):
            /\ results[b].forecastHorizon >= 1
            /\ \A k \in 1..Len(results[b].models):
                  LET m == results[b].models[k]
                  IN  /\ Len(m.predictions) = results[b].forecastHorizon
                      /\ Len(m.confidence) = Len(m.predictions)
                      /\ \A i \in 1..Len(m.confidence): InUnitInterval(m.confidence[i])

\* C17: for every model result of the pipeline, metrics.accuracy is
\* max(0, 1 - mape), precision and recall are both max(0.3, accuracy),
\* f1Score is 2 * precision * recall / (precision + recall), and all four are
\* numbers in [0, 1].
C17_MetricsInUnitInterval ==
    phase = "returned" =>
        \A b \in 1..Len(results):
            \A k \in 1..Len(results[b].models):
                LET m == results[b].models[k].metrics
                IN  /\ m.accuracy = FMax(I(0), FSub(I(1), m.mape))
                    /\ m.precision = FMax(R(3, 10), m.accuracy)
                    /\ m.recall = FMax(R(3, 10), m.accuracy)
                    /\ m.f1Score = FDiv(FMul(I(2), FMul(m.precision, m.recall)),
                                        FAdd(m.precision, m.recall))
                    /\ InUnitInterval(m.accuracy)
                    /\ InUnitInterval(m.precision)
                    /\ InUnitInterval(m.recall)
                    /\ InUnitInterval(m.f1Score)

\* C18: the category of a bundle is the category of the record of that item
\* that comes first in the input batch, also when the item's records carry
\* different categories and the first one is not the earliest-dated.
C18_FirstSeenCategory ==
    phase = "returned" =>
        \A b \in 1..Len(results):
            results[b].category = RecordsOf(results[b].itemName)[1].category

\* the exponential-smoothing result of a bundle and the series it was made from
SmoothingOf(b) == results[b].models[2]
SeriesOfBundle(b) == SeriesIn(salesData, results[b].itemName)

\* C21: the exponential-smoothing model returns, for a series of fewer than
\* 14 observations, exactly one prediction, the last simply smoothed value,
\* with confidence 0.7; otherwise exactly 7 predictions, each >= 0, whose
\* confidences decrease by 0.05 per step and are never below 0.5.
C21_SmoothingShape ==
    phase = "returned" =>
        \A b \in 1..Len(results):
            LET m == SmoothingOf(b)
                data == SeriesOfBundle(b)
            IN  IF Len(data) < 2 * SeasonLength
                THEN /\ m.predictions = <<Smoothed(data, Len(data))>>
                     /\ m.confidence = <<R(7, 10)>>
                ELSE /\ Len(m.predictions) = HWHorizon
                     /\ Len(m.confidence) = HWHorizon
                     /\ \A h \in 1..HWHorizon:
                            /\ FGe(m.predictions[h], I(0))
                            /\ FGe(m.confidence[h], R(1, 2))
                     /\ \A h \in 1..(HWHorizon - 1):
                            FSub(m.confidence[h], m.confidence[h + 1]) = R(1, 20)

\* the number of observations at positions i, i + 7, i + 14, ... of n
SummedAt(n, i) == Cardinality({k \in i..(n - 1): (k - i) % SeasonLength = 0})

\* C24: in the Holt-Winters branch the initial seasonal index of bucket i
\* (0 <= i < 7) is the mean of the observations at positions i, i + 7,
\* i + 14, ...: their sum divided by the number of observations summed.
C24_InitialSeasonalIsMean ==
    phase = "returned" =>
        \A b \in 1..Len(results):
            LET data == SeriesOfBundle(b)
            IN  Len(data) >= 2 * SeasonLength =>
                    \A i \in 0..(SeasonLength - 1):
                        InitialSeasonal(data, i) =
                            FDiv(SeasonalSum(data, i), I(SummedAt(Len(data), i)))

\* C25: in the Holt-Winters branch every seasonal entry read while producing
\* the 7 forecasts was assigned before, by the initialisation or by the
\* smoothing loop, for every series length n >= 14.
C25_SeasonalReadsAssigned ==
    phase = "returned" =>
        \A b \in 1..Len(results):
            LET data == SeriesOfBundle(b)
            IN  Len(data) >= 2 * SeasonLength =>
                    \A h \in 1..HWHorizon:
                        HWSmooth(data).seasonal[ForecastSeasonalIndex(Len(data), h)]
                            # "undefined"

\* the ARIMA result of a bundle
ArimaOf(b) == results[b].models[1]

\* C26: with the default orders the ARIMA model returns exactly one
\* prediction, max(0, x[n-1] - x[n-2]), and its metrics are computed against
\* the single last observation x[n-1].
C26_ArimaLastDifference ==
    phase = "returned" =>
        \A b \in 1..Len(results):
            LET m == ArimaOf(b)
                data == SeriesOfBundle(b)
                n == Len(data)
                expected == FMax(I(0), FSub(data[n], data[n - 1]))
            IN  /\ m.predictions = <<expected>>
                /\ m.metrics = calculateMetrics(<<data[n]>>, <<expected>>)
                /\ m.metrics.mae = FAbs(FSub(data[n], expected))

\* a bundle whose series ends with a rise from 0 to 2: the prediction is 2
C26_Witness ==
    /\ phase = "returned"
    /\ \E b \in 1..Len(results):
          LET data == SeriesOfBundle(b)
          IN  /\ data[Len(data)] = I(2)
              /\ data[Len(data) - 1] = I(0)
              /\ ArimaOf(b).predictions = <<I(2)>>
              /\ ArimaOf(b).metrics.mae = I(0)

\* C27: every model result that carries a single prediction (ARIMA, simple
\* exponential smoothing, neural network) is scored against exactly one
\* actual value, the last observation, so its total sum of squares is 0 and
\* its r2 is 1 whatever its prediction error is.
C27_SinglePredictionR2 ==
    phase = "returned" =>
        \A b \in 1..Len(results):
            \A k \in 1..Len(results[b].models):
                LET m == results[b].models[k]
                    data == SeriesOfBundle(b)
                IN  Len(m.predictions) = 1 =>
                        /\ m.metrics = calculateMetrics(<<data[Len(data)]>>, m.predictions)
                        /\ m.metrics.r2 = I(1)

\* a single prediction that misses the last observation, with r2 = 1
C27_Witness ==
    /\ phase = "returned"
    /\ \E b \in 1..Len(results):
          \E k \in 1..Len(results[b].models):
              LET m == results[b].models[k]
              IN  /\ Len(m.predictions) = 1
                  /\ IsFinite(m.metrics.mae)
                  /\ FGt(m.metrics.mae, I(0))
                  /\ m.metrics.r2 = I(1)

----------------------------------------------------------------------------
(* Properties of createEnsemble (checked under SpecEnsemble)                *)

HasStep(m, i) == i <= Len(m.predictions)

\* C4: under 'weighted', a model of accuracy 0 combined with a model of
\* accuracy 1 yields exactly the second model's prediction and confidence at
\* every step where both have a value.
C4_WeightedZeroAndOne ==
    (phase = "returned" /\ ensMethod = "weighted" /\ Len(ensModels) = 2) =>
        \A zero \in 1..2, one \in 1..2:
            (Accuracy(ensModels[zero]) = I(0) /\ Accuracy(ensModels[one]) = I(1)) =>
                \A i \in 1..Len(ensOut.predictions):
                    (HasStep(ensModels[zero], i) /\ HasStep(ensModels[one], i)) =>
                        /\ ensOut.predictions[i] = ensModels[one].predictions[i]
                        /\ ensOut.confidence[i] = ensModels[one].confidence[i]

\* the sum of the values at step i of the first k sequences that have one
RECURSIVE TotalAt(_, _, _)
TotalAt(seqs, i, k) ==
    IF k = 0 THEN I(0)
    ELSE FAdd(TotalAt(seqs, i, k - 1),
              IF i <= Len(seqs[k]) THEN seqs[k][i] ELSE I(0))

CountAt(models, i) == Cardinality({j \in 1..Len(models): HasStep(models[j], i)})

\* C5: under 'average' the value at step i is the arithmetic mean of the
\* predictions (and of the confidences) of exactly the models that have an
\* element at index i; two models predicting [10] and [20] give exactly 15.
C5_AverageIsMean ==
    (phase = "returned" /\ ensMethod = "average") =>
        /\ \A i \in 1..Len(ensOut.predictions):
              /\ CountAt(ensModels, i) >= 1
              /\ FMul(I(CountAt(ensModels, i)), ensOut.predictions[i])
                   = TotalAt([j \in 1..Len(ensModels) |-> ensModels[j].predictions],
                             i, Len(ensModels))
              /\ FMul(I(CountAt(ensModels, i)), ensOut.confidence[i])
                   = TotalAt([j \in 1..Len(ensModels) |-> ensModels[j].confidence],
                             i, Len(ensModels))
        /\ \A j \in 1..Len(ensModels):
              Len(ensModels[j].predictions) <= Len(ensOut.predictions)
        /\ (/\ Len(ensModels) = 2
            /\ ensModels[1].predictions = <<I(10)>>
            /\ ensModels[2].predictions = <<I(20)>>) => ensOut.predictions = <<I(15)>>

\* the models predict [10] and [20], and the average is [15]
C5_Witness ==
    /\ phase = "returned" /\ ensMethod = "average" /\ Len(ensModels) = 2
    /\ ensModels[1].predictions = <<I(10)>>
    /\ ensModels[2].predictions = <<I(20)>>
    /\ ensOut.predictions = <<I(15)>>

\* C6: under 'best_performer' one single model, the one with the highest
\* accuracy and the first on a tie, is used at every step: its values at
\* step i when it has them and 0 otherwise, never another model's values.
C6_BestPerformerSingleModel ==
    (phase = "returned" /\ ensMethod = "best_performer") =>
        \E b \in 1..Len(ensModels):
            /\ IsHighestEarliest(ensModels, b)
            /\ \A j \in 1..Len(ensModels):
                  Len(ensModels[j].predictions) <= Len(ensOut.predictions)
            /\ \A i \in 1..Len(ensOut.predictions):
                  IF HasStep(ensModels[b], i)
                  THEN /\ ensOut.predictions[i] = ensModels[b].predictions[i]
                       /\ ensOut.confidence[i] = ensModels[b].confidence[i]
                  ELSE /\ ensOut.predictions[i] = I(0)
                       /\ ensOut.confidence[i] = I(0)

\* the best model is shorter than the other, whose last value is not 0: the
\* ensemble holds 0 there
C6_Witness ==
    /\ phase = "returned" /\ ensMethod = "best_performer" /\ Len(ensModels) = 2
    /\ FGt(Accuracy(ensModels[1]), Accuracy(ensModels[2]))
    /\ Len(ensModels[1].predictions) = 1
    /\ Len(ensModels[2].predictions) = 3
    /\ ensModels[2].predictions[3] # I(0)
    /\ ensOut.predictions[3] = I(0)

----------------------------------------------------------------------------
(* Properties of detectAnomalies (checked under SpecAnomaly)                *)

\* observation j differs from all the others, which are equal (the series
\* has three observations or more)
IsOutlierAt(j) ==
    /\ Len(anomData) >= 3
    /\ \A a \in 1..Len(anomData), b \in 1..Len(anomData):
          (a # j /\ b # j) => anomData[a].quantity = anomData[b].quantity
    /\ \A a \in 1..Len(anomData):
          a # j => anomData[a].quantity # anomData[j].quantity

\* the list returned holds observation j and nothing else
FlagsExactly(j) ==
    /\ Len(anomOut) = 1
    /\ anomOut[1].date = anomData[j].date
    /\ anomOut[1].value = anomData[j].quantity

\* C9, as claimed: on a series with one outlier among otherwise equal
\* quantities (such as [10,10,10,10,100]), detection with the default
\* threshold 2.5 flags exactly the outlier.
C9_OutlierAlwaysFlagged ==
    (phase = "returned" /\ anomThreshold = DefaultThreshold) =>
        \A j \in 1..Len(anomData): IsOutlierAt(j) => FlagsExactly(j)

\* C9, amended: the z-score of the single outlier of a series of n
\* observations is sqrt(n - 1) and that of every other observation is
\* 1/sqrt(n - 1); with the default threshold 2.5 exactly the outlier is
\* flagged when n >= 8, and nothing is flagged when n <= 7.
C9_OutlierFlaggedFromEight ==
    (phase = "returned" /\ anomThreshold = DefaultThreshold) =>
        \A j \in 1..Len(anomData):
            IsOutlierAt(j) =>
                IF Len(anomData) >= 8
                THEN /\ FlagsExactly(j)
                     /\ anomOut[1].anomalyScore2 = I(Len(anomData) - 1)
                ELSE anomOut = <<>>

\* eight observations, the last one the outlier: it alone is flagged
C9_Witness ==
    /\ phase = "returned" /\ anomThreshold = DefaultThreshold
    /\ Len(anomData) = 8 /\ IsOutlierAt(8)
    /\ FlagsExactly(8)

AllEqual ==
    \A a \in 1..Len(anomData), b \in 1..Len(anomData):
        anomData[a].quantity = anomData[b].quantity

\* C10: when all the quantities of the series are equal, detectAnomalies
\* returns an empty list, for every threshold >= 0 and every length >= 1.
C10_ConstantSeriesNoAnomaly ==
    (phase = "returned" /\ AllEqual) => anomOut = <<>>

\* a constant series of several observations under threshold 0
C10_Witness ==
    /\ phase = "returned" /\ AllEqual
    /\ Len(anomData) >= 2 /\ anomThreshold = I(0)
    /\ anomOut = <<>>

\* C28: with the default threshold 2.5 no observation of a series of fewer
\* than 8 observations is flagged, whatever the quantities are; a series of
\* exactly 7 observations gets an empty list.
C28_NoAnomalyBelowEight ==
    (phase = "returned" /\ anomThreshold = DefaultThreshold /\ Len(anomData) < 8) =>
        anomOut = <<>>

\* seven observations, six of them 0 and the last one 100: the largest score
\* a series of seven can give (its square is 6), and nothing is flagged
C28_Witness ==
    /\ phase = "returned" /\ anomThreshold = DefaultThreshold
    /\ Len(anomData) = MinObservations /\ IsOutlierAt(MinObservations)
    /\ anomData[1].quantity = I(0) /\ anomData[MinObservations].quantity = I(100)
    /\ ZScoreSquared(I(100), Mean([j \in 1..MinObservations |-> anomData[j].quantity]),
                     Variance([j \in 1..MinObservations |-> anomData[j].quantity])) = I(6)
    /\ anomOut = <<>>

----------------------------------------------------------------------------
(* Properties of decomposeTimeSeries (checked under SpecDecompose)          *)

\* C12: for every input series (season length 7), decomposeTimeSeries
\* returns trend, seasonal and residual sequences of exactly the input's
\* length, all of numbers, and trend[i] + seasonal[i] + residual[i] equals
\* the input value at i for every index i.
C12_DecompositionAddsUp ==
    phase = "returned" =>
        /\ Len(decOut.trend) = Len(decData)
        /\ Len(decOut.seasonal) = Len(decData)
        /\ Len(decOut.residual) = Len(decData)
        /\ \A i \in 1..Len(decData):
              /\ IsFinite(decOut.trend[i])
              /\ IsFinite(decOut.seasonal[i])
              /\ IsFinite(decOut.residual[i])
              /\ FAdd(FAdd(decOut.trend[i], decOut.seasonal[i]), decOut.residual[i])
                   = decData[i]

\* a series longer than a season whose seasonal and residual parts are not
\* all zero
C12_Witness ==
    /\ phase = "returned"
    /\ Len(decData) > SeasonLength
    /\ Len(decOut.residual) = Len(decData)
    /\ \E i \in 1..Len(decData): decOut.seasonal[i] # I(0)
    /\ \E i \in 1..Len(decData): decOut.residual[i] # I(0)
    /\ \A i \in 1..Len(decData):
          FAdd(FAdd(decOut.trend[i], decOut.seasonal[i]), decOut.residual[i]) = decData[i]

----------------------------------------------------------------------------
(* Properties of generateForecasts (checked under SpecBasic)                *)

\* C13: the confidence computed from a non-empty series of non-negative
\* quantities and a finite predicted value is always a number in
\* [0.3, 0.98], also when all the quantities are zero.
C13_ConfidenceInRange ==
    phase = "returned" =>
        \A k \in 1..Len(forecast.predictions):
            LET confidence == forecast.predictions[k].confidence
            IN  /\ IsFinite(confidence)
                /\ FGe(confidence, R(3, 10))
                /\ FLe(confidence, R(49, 50))

\* every record of item it has quantity c
IsFlat(it, c) ==
    /\ RecordsOf(it) # <<>>
    /\ \A j \in 1..Len(salesData):
          salesData[j].itemName = it => salesData[j].quantity = c

\* the table [Sun..Sat] = [0.8, 0.9, 1.0, 1.1, 1.2, 1.4, 1.3]
WeekdayFactor(day) ==
    CASE day = 0 -> R(4, 5) [] day = 1 -> R(9, 10) [] day = 2 -> I(1)
      [] day = 3 -> R(11, 10) [] day = 4 -> R(6, 5) [] day = 5 -> R(7, 5)
      [] day = 6 -> R(13, 10)

\* q is x rounded to the nearest integer, a half rounded up
IsRounded(q, x) ==
    /\ q[2] = 1
    /\ FLe(FSub(q, R(1, 2)), x)
    /\ FLt(x, FAdd(q, R(1, 2)))

\* C14: for an item whose quantities all equal a constant c, generateForecasts
\* predicts predictedQuantity = round(c * f), f being the entry of the table
\* [Sun..Sat] = [0.8,0.9,1.0,1.1,1.2,1.4,1.3] for the weekday of the day
\* after the call, whatever that weekday.
C14_FlatSeriesPrediction ==
    phase = "returned" =>
        \A k \in 1..Len(forecast.predictions):
            LET p == forecast.predictions[k]
            IN  \A c \in {I(q) : q \in FlatQuantities \cup BasicQuantities \cup Quantities}:
                    IsFlat(p.itemName, c) =>
                        /\ IsRounded(p.predictedQuantity, FMul(c, WeekdayFactor(tomorrow)))
                        /\ p.predictionDate = tomorrow

\* ten days of 50 before a Friday give 70, and days of 5 before a Monday
\* give 5 (4.5 rounded up)
C14_Witness ==
    /\ phase = "returned"
    /\ Len(forecast.predictions) = 1
    /\ \/ /\ IsFlat("X", I(50)) /\ Len(salesData) = 10 /\ tomorrow = 5
          /\ forecast.predictions[1].predictedQuantity = I(70)
       \/ /\ IsFlat("X", I(5)) /\ tomorrow = 1
          /\ forecast.predictions[1].predictedQuantity = I(5)

\* C15: for an item with a flat 10-day series of constant quantity 50, the
\* prediction record of generateForecasts has confidence >= 0.9, whatever
\* the weekday of tomorrow.
C15_FlatSeriesConfidence ==
    (phase = "returned" /\ IsFlat("X", I(50)) /\ Len(salesData) = 10) =>
        /\ Len(forecast.predictions) = 1
        /\ FGe(forecast.predictions[1].confidence, R(9, 10))

----------------------------------------------------------------------------
(* Properties of repeated calls (checked under SpecRepeat)                  *)

\* the records of every item have pairwise distinct dates
DistinctDates ==
    \A j \in 1..Len(salesData), k \in 1..Len(salesData):
        (j # k /\ salesData[j].itemName = salesData[k].itemName)
            => salesData[j].date # salesData[k].date

\* the place of obs[j] by ascending date, equal dates in the order of obs
Rank(obs, j) ==
    1 + Cardinality({k \in 1..Len(obs):
                        \/ obs[k].date.time < obs[j].date.time
                        \/ obs[k].date.time = obs[j].date.time /\ k < j})

DateAscending(obs) ==
    [r \in 1..Len(obs) |-> obs[CHOOSE j \in 1..Len(obs): Rank(obs, j) = r]]

\* what does not depend on Math.random() nor on the network, as far as the
\* order of the records is concerned
SameSeriesResults(b1, b2) ==
    /\ b1.itemName = b2.itemName
    /\ b1.seasonalComponents = b2.seasonalComponents
    /\ b1.anomalies = b2.anomalies
    /\ b1.models[1].predictions = b2.models[1].predictions
    /\ b1.models[1].metrics = b2.models[1].metrics
    /\ b1.models[2].predictions = b2.models[2].predictions
    /\ b1.models[2].metrics = b2.models[2].metrics

\* C19: for two inputs that are permutations of each other and in which
\* each item's records have pairwise distinct dates, every item is forecast
\* from the same date-ascending series: its seasonalComponents, anomalies and
\* the ARIMA and exponential-smoothing predictions and metrics are the same
\* for both; records with equal dates keep the order of the input.
C19_OrderOfRecordsIrrelevant ==
    /\ (phase = "permuted" /\ DistinctDates) =>
          /\ Len(results) = Len(earlier)
          /\ \A b \in 1..Len(results): SameSeriesResults(earlier[b], results[b])
    /\ phase \in {"returned", "repeated", "permuted"} =>
          \A b \in 1..Len(results):
              results[b].seasonalComponents =
                  decomposeTimeSeries(
                      QuantitiesOf(DateAscending(RecordsOf(results[b].itemName))))

\* the records of 15 days, not in the order of their dates, give the results
\* of the call before
C19_Witness ==
    /\ phase = "permuted" /\ DistinctDates
    /\ Len(salesData) = 2 * SeasonLength + 1
    /\ \E j \in 1..(Len(salesData) - 1): salesData[j].date.time > salesData[j + 1].date.time
    /\ salesData[1].quantity # salesData[Len(salesData)].quantity
    /\ Len(results) = 1 /\ Len(earlier) = 1
    /\ SameSeriesResults(earlier[1], results[1])

\* C20: two calls of generateAdvancedForecasts on the same ordered input
\* return bundles that agree on everything but the neural network's outputs,
\* what derives from them and externalFactorsImpact: the predictions,
\* confidence and metrics of the ARIMA and exponential-smoothing models, the
\* seasonalComponents and the anomalies are the same in both.
C20_SecondCallAgrees ==
    phase = "repeated" =>
        /\ Len(results) = Len(earlier)
        /\ \A b \in 1..Len(results):
              /\ SameSeriesResults(earlier[b], results[b])
              /\ earlier[b].category = results[b].category
              /\ earlier[b].forecastHorizon = results[b].forecastHorizon
              /\ earlier[b].models[1].confidence = results[b].models[1].confidence
              /\ earlier[b].models[2].confidence = results[b].models[2].confidence

----------------------------------------------------------------------------
(* Properties of the statistics functions (checked under SpecStatistics)    *)

MeanOf(values) == FDiv(SumSeq(values), I(Len(values)))

\* a moving average was asked for with a window larger than a non-empty series
WindowTooLarge == statValues # <<>> /\ statWindow > Len(statValues)

\* C22: the moving average called with a positive window larger than the
\* length of a non-empty series does not fail and returns the mean of the
\* whole series, in the forecasting service and in the client utilities.
C22_WindowLargerThanSeries ==
    WindowTooLarge =>
        /\ statOut.fn = "calculateMovingAverage" =>
              phase = "returned" /\ statOut.average = MeanOf(statValues)
        /\ statOut.fn = "calculateMovingAverageClient" =>
              phase = "returned" /\ statOut.averages = <<MeanOf(statValues)>>

\* the series is x[i] = a + b * i for some a and b
IsLinear(values) ==
    \A i \in 2..Len(values):
        FSub(values[i], values[i - 1]) = FSub(values[2], values[1])

\* C23: on a perfectly linear series x[i] = a + b * i of at least 2 points
\* calculateTrend returns slope b, intercept a and r2 = 1; on a series of
\* fewer than 2 points it returns slope 0, intercept x[0] (0 when the series
\* is empty) and r2 = 0.
C23_TrendOfLinearSeries ==
    statOut.fn = "calculateTrend" =>
        /\ Len(statValues) >= 2 /\ IsLinear(statValues) =>
              /\ statOut.trend.slope = FSub(statValues[2], statValues[1])
              /\ statOut.trend.intercept = statValues[1]
              /\ statOut.trend.r2 = I(1)
        /\ Len(statValues) < 2 =>
              /\ statOut.trend.slope = I(0)
              /\ statOut.trend.intercept =
                    (IF statValues = <<>> THEN I(0) ELSE statValues[1])
              /\ statOut.trend.r2 = I(0)

\* calculateTrend has returned for [2, 4, 6, 8, 10]
C23_Witness ==
    /\ statOut.fn = "calculateTrend"
    /\ phase = "returned"
    /\ statValues = LinearSeries(I(2), I(2), MaxStatLen)
    /\ statOut.trend.slope = I(2)

----------------------------------------------------------------------------
(* Properties of the NotificationService (checked under SpecService)        *)

\* C29: once acknowledgeNotification(id) has returned true, no later call of
\* getActiveNotifications returns a notification with that id, whatever
\* checks, rule updates and acknowledgements came in between; and
\* acknowledgeNotification returns false for an id that is not stored.
C29_AcknowledgedStaysInactive ==
    /\ lastCall.method = "getActiveNotifications" =>
          \A k \in 1..Len(lastCall.events):
              lastCall.events[k].id \notin history.acknowledged
    /\ (lastCall.method = "acknowledgeNotification"
            /\ ~MapHas(notifications, lastCall.id)) => ~lastCall.result

\* C30: every event a check operation returns is stored under an id of its
\* own, so the number of stored notifications is the number of events
\* returned so far, also when two checks run within one clock millisecond.
C30_OneNotificationPerEvent ==
    Len(notifications) = history.returned

====
